---------------------------- MODULE Spec2Model ----------------------------
(***************************************************************************)
(* The resume scoring engine of backend/resume-analysis-service/app.py:    *)
(* the analyze_resume handler (skill score, ATS keyword / phrase /         *)
(* achievement scoring, missing keywords, grammar heuristic, final score). *)
(*                                                                         *)
(* Representation.  A Python str is a sequence of one-character strings.   *)
(* A float is kept exactly: keyword_score and phrase_score are fractions   *)
(* [num, den]; ats_score, which the code rounds to 2 decimals, is an       *)
(* integer number of hundredths; round() is round-half-to-even on the      *)
(* exact value (a double can differ from it only on an exact tie).  None   *)
(* is the empty sequence and a present value v is <<v>>.  The iteration    *)
(* order of a Python set of str depends on the per-process hash seed, so   *)
(* every loop over a set takes its order as a nondeterministic choice.     *)
(***************************************************************************)
EXTENDS Integers, Sequences, FiniteSets, TLC

VARIABLES
    pc,                  \* position of the request in analyze_resume
    SKILLS,              \* the configured skills list (app.py:21-27)
    job_description,     \* request.form['job_description']
    text,                \* the text extracted from the uploaded resume
    found_skills,
    skill_score,
    keyword_score,       \* fraction [num, den]
    critical_phrases_jd, \* the two-word phrases of the JD, in order
    phrase_score,        \* fraction [num, den]
    achievement_score,
    jd_keywords,
    resume_keywords,
    exact_matches,
    semantic_matched_jd_words,
    ats_score,           \* hundredths
    similarity_with_jd,  \* None or <<hundredths>>
    missing_keywords,
    grammar_issues,
    score,               \* None until the final score is computed
    result,              \* None or <<the JSON object returned>>
    uploads,             \* the uploads folder: file name -> None or <<file>>
    requests,            \* the requests in flight that go through the folder
    db,                  \* whether the Firestore client is configured
    resume_analysis,     \* the collection: document id -> None or <<record>>
    deletes              \* the delete requests in flight (history_api.py)

scoringVars == <<pc, SKILLS, job_description, text, found_skills, skill_score,
                 jd_keywords, resume_keywords, exact_matches,
                 semantic_matched_jd_words, keyword_score,
                 critical_phrases_jd, phrase_score, achievement_score,
                 ats_score, similarity_with_jd, missing_keywords,
                 grammar_issues, score, result>>

uploadVars == <<uploads, requests>>

storeVars == <<db, resume_analysis, deletes>>

vars == <<scoringVars, uploadVars, storeVars>>

None == <<>>

---------------------------------------------------------------------------
(* Characters and the str methods the handler uses.                        *)

UpperOf ==
    [a |-> "A", b |-> "B", c |-> "C", d |-> "D", e |-> "E", f |-> "F",
     g |-> "G", h |-> "H", i |-> "I", j |-> "J", k |-> "K", l |-> "L",
     m |-> "M", n |-> "N", o |-> "O", p |-> "P", q |-> "Q", r |-> "R",
     s |-> "S", t |-> "T", u |-> "U", v |-> "V", w |-> "W", x |-> "X",
     y |-> "Y", z |-> "Z"]

LowerOf ==
    [A |-> "a", B |-> "b", C |-> "c", D |-> "d", E |-> "e", F |-> "f",
     G |-> "g", H |-> "h", I |-> "i", J |-> "j", K |-> "k", L |-> "l",
     M |-> "m", N |-> "n", O |-> "o", P |-> "p", Q |-> "q", R |-> "r",
     S |-> "s", T |-> "t", U |-> "u", V |-> "v", W |-> "w", X |-> "x",
     Y |-> "y", Z |-> "z"]

DigitChars == <<"0", "1", "2", "3", "4", "5", "6", "7", "8", "9">>

IsLowerChar(c) == c \in DOMAIN UpperOf
IsUpperChar(c) == c \in DOMAIN LowerOf
IsDigit(c) == \E i \in 1..10 : DigitChars[i] = c
\* \w of the re module
IsWordChar(c) == IsLowerChar(c) \/ IsUpperChar(c) \/ IsDigit(c) \/ c = "_"
\* whitespace as str.strip() and str.isspace() see it
IsSpace(c) == c \in {" ", "\t", "\n", "\r"}

LowerChar(c) == IF IsUpperChar(c) THEN LowerOf[c] ELSE c
UpperChar(c) == IF IsLowerChar(c) THEN UpperOf[c] ELSE c

\* str.lower()
Lower(s) == SubSeq([i \in 1..Len(s) |-> LowerChar(s[i])], 1, Len(s))

\* The least i in a..b with P(i), or b + 1 when there is none.
FirstAt(a, b, P(_)) ==
    IF \E i \in a..b : P(i)
    THEN CHOOSE i \in a..b : P(i) /\ \A j \in a..(i - 1) : ~P(j)
    ELSE b + 1

\* The greatest i in a..b with P(i), or a - 1 when there is none.
LastAt(a, b, P(_)) ==
    IF \E i \in a..b : P(i)
    THEN CHOOSE i \in a..b : P(i) /\ \A j \in (i + 1)..b : ~P(j)
    ELSE a - 1

\* s[i:j] with 1-based inclusive bounds
Slice(s, a, b) == SubSeq(s, a, b)

\* `sub in s` for two str
OccursAt(sub, s, i) == \A k \in 1..Len(sub) : s[i + k - 1] = sub[k]
Contains(s, sub) == \E i \in 1..(Len(s) - Len(sub) + 1) : OccursAt(sub, s, i)

\* s.strip(chars) for a set of characters
StripChars(s, chars) ==
    LET first == FirstAt(1, Len(s), LAMBDA i : s[i] \notin chars)
        last  == LastAt(1, Len(s), LAMBDA i : s[i] \notin chars)
    IN  IF first > Len(s) THEN <<>> ELSE Slice(s, first, last)

\* s.strip()
Strip(s) == StripChars(s, {" ", "\t", "\n", "\r"})

\* a \b of the re module at offset p of s (between s[p] and s[p+1])
WordAt(s, i) == i >= 1 /\ i <= Len(s) /\ IsWordChar(s[i])
Boundary(s, p) == WordAt(s, p) # WordAt(s, p + 1)

---------------------------------------------------------------------------
(* Python sets and their iteration order.                                  *)

Range(seq) == { seq[i] : i \in 1..Len(seq) }

\* Sets of at most MaxPermuted elements are iterated in every order; for a
\* larger set the lexicographic order and its reverse stand for the rest.
MaxPermuted == 3

RankedChars ==
    <<"0", "1", "2", "3", "4", "5", "6", "7", "8", "9",
      "a", "b", "c", "d", "e", "f", "g", "h", "i", "j", "k", "l", "m",
      "n", "o", "p", "q", "r", "s", "t", "u", "v", "w", "x", "y", "z",
      "_", "+", "/", "#", "-">>

CharRank(c) == FirstAt(1, Len(RankedChars), LAMBDA i : RankedChars[i] = c)

LexLess(a, b) ==
    LET m == IF Len(a) < Len(b) THEN Len(a) ELSE Len(b)
        i == FirstAt(1, m, LAMBDA k : a[k] # b[k])
    IN  IF i > m THEN Len(a) < Len(b) ELSE CharRank(a[i]) < CharRank(b[i])

RECURSIVE Ascending(_)
Ascending(S) ==
    IF S = {} THEN <<>>
    ELSE LET least == CHOOSE x \in S : \A y \in S \ {x} : LexLess(x, y)
         IN  <<least>> \o Ascending(S \ {least})

Reverse(seq) ==
    SubSeq([i \in 1..Len(seq) |-> seq[Len(seq) + 1 - i]], 1, Len(seq))

Orderings(S) ==
    { f \in [1..Cardinality(S) -> S] :
        \A i, j \in 1..Cardinality(S) : i # j => f[i] # f[j] }

\* The orders in which `for x in S` may visit a set of str.
SetOrders(S) ==
    IF Cardinality(S) <= MaxPermuted
    THEN Orderings(S)
    ELSE { Ascending(S), Reverse(Ascending(S)) }

---------------------------------------------------------------------------
(* Exact arithmetic for the float expressions.                             *)

\* round(num / den) for den > 0: Python rounds a tie to the even integer.
Round(num, den) ==
    LET q == num \div den
        r == num - q * den
    IN  IF 2 * r < den THEN q
        ELSE IF 2 * r > den THEN q + 1
        ELSE IF q % 2 = 0 THEN q ELSE q + 1

Min(a, b) == IF a < b THEN a ELSE b
Max(a, b) == IF a > b THEN a ELSE b

---------------------------------------------------------------------------
(* The word tables of the ATS block (app.py:177-257).                      *)

stopwords ==
    { <<"t","h","e">>,
      <<"a","n","d">>,
      <<"f","o","r">>,
      <<"w","i","t","h">>,
      <<"u","s","i","n","g">>,
      <<"t","h","i","s">>,
      <<"t","h","a","t">>,
      <<"f","r","o","m">>,
      <<"w","i","l","l">>,
      <<"c","a","n">>,
      <<"h","a","s">>,
      <<"h","a","v","e">>,
      <<"a","r","e">>,
      <<"w","e","r","e">>,
      <<"b","e","e","n">>,
      <<"b","e","i","n","g">>,
      <<"o","u","r">>,
      <<"y","o","u","r">>,
      <<"a","b","o","u","t">>,
      <<"i","n","t","o">>,
      <<"t","h","r","o","u","g","h">>,
      <<"d","u","r","i","n","g">>,
      <<"b","e","f","o","r","e">>,
      <<"a","f","t","e","r">>,
      <<"a","b","o","v","e">>,
      <<"s","u","c","h">>,
      <<"w","h","e","n">>,
      <<"w","h","e","r","e">>,
      <<"w","h","o">>,
      <<"h","o","w">>,
      <<"w","h","a","t">>,
      <<"w","h","i","c","h">>,
      <<"t","h","e","i","r">>,
      <<"t","h","e","m">>,
      <<"t","h","e","s","e">>,
      <<"t","h","o","s","e">>,
      <<"s","h","o","u","l","d">>,
      <<"w","o","u","l","d">>,
      <<"c","o","u","l","d">>,
      <<"m","a","y">>,
      <<"m","i","g","h","t">>,
      <<"m","o","r","e">>,
      <<"m","o","s","t">>,
      <<"o","t","h","e","r">>,
      <<"s","o","m","e">>,
      <<"t","h","a","n">>,
      <<"t","o","o">>,
      <<"v","e","r","y">>,
      <<"a","l","s","o">>,
      <<"a","l","l">>,
      <<"b","o","t","h">>,
      <<"e","a","c","h">>,
      <<"f","e","w">>,
      <<"a","n","y">>,
      <<"e","v","e","r","y">>,
      <<"e","i","t","h","e","r">>,
      <<"n","e","i","t","h","e","r">> }

universal_synonyms ==
    << [key |-> <<"p","y","t","h","o","n">>,
       synonyms |-> << <<"p","y","t","h","o","n">>,
                     <<"p","y">>,
                     <<"p","y","t","h","o","n","3">> >>],
       [key |-> <<"j","a","v","a","s","c","r","i","p","t">>,
       synonyms |-> << <<"j","a","v","a","s","c","r","i","p","t">>,
                     <<"j","s">>,
                     <<"n","o","d","e">>,
                     <<"n","o","d","e","j","s">>,
                     <<"n","o","d","e",".","j","s">> >>],
       [key |-> <<"s","q","l">>,
       synonyms |-> << <<"s","q","l">>,
                     <<"m","y","s","q","l">>,
                     <<"p","o","s","t","g","r","e","s","q","l">>,
                     <<"p","o","s","t","g","r","e","s">>,
                     <<"t","-","s","q","l">>,
                     <<"p","l","s","q","l">>,
                     <<"d","a","t","a","b","a","s","e">> >>],
       [key |-> <<"a","w","s">>,
       synonyms |-> << <<"a","w","s">>,
                     <<"a","m","a","z","o","n"," ","w","e","b"," ","s","e","r","v","i","c","e","s">>,
                     <<"e","c","2">>,
                     <<"s","3">>,
                     <<"l","a","m","b","d","a">>,
                     <<"c","l","o","u","d">> >>],
       [key |-> <<"m","a","c","h","i","n","e"," ","l","e","a","r","n","i","n","g">>,
       synonyms |-> << <<"m","a","c","h","i","n","e"," ","l","e","a","r","n","i","n","g">>,
                     <<"m","l">>,
                     <<"a","i">>,
                     <<"d","e","e","p"," ","l","e","a","r","n","i","n","g">>,
                     <<"n","e","u","r","a","l">>,
                     <<"a","r","t","i","f","i","c","i","a","l"," ","i","n","t","e","l","l","i","g","e","n","c","e">> >>],
       [key |-> <<"d","a","t","a">>,
       synonyms |-> << <<"d","a","t","a">>,
                     <<"d","a","t","a","s","e","t">>,
                     <<"d","a","t","a","b","a","s","e">>,
                     <<"d","a","t","a","b","a","s","e","s">>,
                     <<"a","n","a","l","y","t","i","c","s">> >>],
       [key |-> <<"a","p","i">>,
       synonyms |-> << <<"a","p","i">>,
                     <<"r","e","s","t">>,
                     <<"r","e","s","t","f","u","l">>,
                     <<"g","r","a","p","h","q","l">>,
                     <<"e","n","d","p","o","i","n","t">>,
                     <<"w","e","b"," ","s","e","r","v","i","c","e">> >>],
       [key |-> <<"d","o","c","k","e","r">>,
       synonyms |-> << <<"d","o","c","k","e","r">>,
                     <<"c","o","n","t","a","i","n","e","r">>,
                     <<"c","o","n","t","a","i","n","e","r","s">>,
                     <<"c","o","n","t","a","i","n","e","r","i","z","a","t","i","o","n">> >>],
       [key |-> <<"k","u","b","e","r","n","e","t","e","s">>,
       synonyms |-> << <<"k","u","b","e","r","n","e","t","e","s">>,
                     <<"k","8","s">>,
                     <<"o","r","c","h","e","s","t","r","a","t","i","o","n">> >>],
       [key |-> <<"g","i","t">>,
       synonyms |-> << <<"g","i","t">>,
                     <<"g","i","t","h","u","b">>,
                     <<"g","i","t","l","a","b">>,
                     <<"v","e","r","s","i","o","n"," ","c","o","n","t","r","o","l">>,
                     <<"b","i","t","b","u","c","k","e","t">> >>],
       [key |-> <<"a","g","i","l","e">>,
       synonyms |-> << <<"a","g","i","l","e">>,
                     <<"s","c","r","u","m">>,
                     <<"s","p","r","i","n","t">>,
                     <<"k","a","n","b","a","n">> >>],
       [key |-> <<"t","e","s","t","i","n","g">>,
       synonyms |-> << <<"t","e","s","t","i","n","g">>,
                     <<"t","e","s","t">>,
                     <<"q","a">>,
                     <<"q","u","a","l","i","t","y"," ","a","s","s","u","r","a","n","c","e">>,
                     <<"j","u","n","i","t">>,
                     <<"p","y","t","e","s","t">> >>],
       [key |-> <<"c","i","/","c","d">>,
       synonyms |-> << <<"c","i","/","c","d">>,
                     <<"c","o","n","t","i","n","u","o","u","s"," ","i","n","t","e","g","r","a","t","i","o","n">>,
                     <<"c","o","n","t","i","n","u","o","u","s"," ","d","e","p","l","o","y","m","e","n","t">>,
                     <<"j","e","n","k","i","n","s">>,
                     <<"g","i","t","h","u","b"," ","a","c","t","i","o","n","s">> >>],
       [key |-> <<"s","e","o">>,
       synonyms |-> << <<"s","e","o">>,
                     <<"s","e","a","r","c","h"," ","e","n","g","i","n","e"," ","o","p","t","i","m","i","z","a","t","i","o","n">>,
                     <<"s","e","m">>,
                     <<"s","e","a","r","c","h"," ","m","a","r","k","e","t","i","n","g">> >>],
       [key |-> <<"s","o","c","i","a","l"," ","m","e","d","i","a">>,
       synonyms |-> << <<"s","o","c","i","a","l"," ","m","e","d","i","a">>,
                     <<"f","a","c","e","b","o","o","k">>,
                     <<"i","n","s","t","a","g","r","a","m">>,
                     <<"t","w","i","t","t","e","r">>,
                     <<"l","i","n","k","e","d","i","n">>,
                     <<"t","i","k","t","o","k">> >>],
       [key |-> <<"c","o","n","t","e","n","t">>,
       synonyms |-> << <<"c","o","n","t","e","n","t">>,
                     <<"c","o","p","y","w","r","i","t","i","n","g">>,
                     <<"w","r","i","t","i","n","g">>,
                     <<"e","d","i","t","o","r","i","a","l">> >>],
       [key |-> <<"b","r","a","n","d","i","n","g">>,
       synonyms |-> << <<"b","r","a","n","d","i","n","g">>,
                     <<"b","r","a","n","d">>,
                     <<"b","r","a","n","d"," ","i","d","e","n","t","i","t","y">>,
                     <<"b","r","a","n","d"," ","s","t","r","a","t","e","g","y">> >>],
       [key |-> <<"c","a","m","p","a","i","g","n">>,
       synonyms |-> << <<"c","a","m","p","a","i","g","n">>,
                     <<"m","a","r","k","e","t","i","n","g"," ","c","a","m","p","a","i","g","n">>,
                     <<"a","d","v","e","r","t","i","s","i","n","g"," ","c","a","m","p","a","i","g","n">> >>],
       [key |-> <<"e","m","a","i","l"," ","m","a","r","k","e","t","i","n","g">>,
       synonyms |-> << <<"e","m","a","i","l"," ","m","a","r","k","e","t","i","n","g">>,
                     <<"e","m","a","i","l"," ","c","a","m","p","a","i","g","n","s">>,
                     <<"n","e","w","s","l","e","t","t","e","r">> >>],
       [key |-> <<"a","n","a","l","y","t","i","c","s">>,
       synonyms |-> << <<"a","n","a","l","y","t","i","c","s">>,
                     <<"g","o","o","g","l","e"," ","a","n","a","l","y","t","i","c","s">>,
                     <<"w","e","b"," ","a","n","a","l","y","t","i","c","s">>,
                     <<"d","a","t","a"," ","a","n","a","l","y","s","i","s">> >>],
       [key |-> <<"a","c","c","o","u","n","t","i","n","g">>,
       synonyms |-> << <<"a","c","c","o","u","n","t","i","n","g">>,
                     <<"b","o","o","k","k","e","e","p","i","n","g">>,
                     <<"f","i","n","a","n","c","i","a","l"," ","a","c","c","o","u","n","t","i","n","g">> >>],
       [key |-> <<"b","u","d","g","e","t","i","n","g">>,
       synonyms |-> << <<"b","u","d","g","e","t","i","n","g">>,
                     <<"b","u","d","g","e","t">>,
                     <<"f","i","n","a","n","c","i","a","l"," ","p","l","a","n","n","i","n","g">> >>],
       [key |-> <<"e","x","c","e","l">>,
       synonyms |-> << <<"e","x","c","e","l">>,
                     <<"m","i","c","r","o","s","o","f","t"," ","e","x","c","e","l">>,
                     <<"s","p","r","e","a","d","s","h","e","e","t">>,
                     <<"s","p","r","e","a","d","s","h","e","e","t","s">> >>],
       [key |-> <<"f","i","n","a","n","c","i","a","l"," ","a","n","a","l","y","s","i","s">>,
       synonyms |-> << <<"f","i","n","a","n","c","i","a","l"," ","a","n","a","l","y","s","i","s">>,
                     <<"f","i","n","a","n","c","i","a","l"," ","m","o","d","e","l","i","n","g">>,
                     <<"f","o","r","e","c","a","s","t","i","n","g">> >>],
       [key |-> <<"g","a","a","p">>,
       synonyms |-> << <<"g","a","a","p">>,
                     <<"g","e","n","e","r","a","l","l","y"," ","a","c","c","e","p","t","e","d"," ","a","c","c","o","u","n","t","i","n","g"," ","p","r","i","n","c","i","p","l","e","s">>,
                     <<"a","c","c","o","u","n","t","i","n","g"," ","s","t","a","n","d","a","r","d","s">> >>],
       [key |-> <<"q","u","i","c","k","b","o","o","k","s">>,
       synonyms |-> << <<"q","u","i","c","k","b","o","o","k","s">>,
                     <<"a","c","c","o","u","n","t","i","n","g"," ","s","o","f","t","w","a","r","e">> >>],
       [key |-> <<"t","a","x">>,
       synonyms |-> << <<"t","a","x">>,
                     <<"t","a","x","a","t","i","o","n">>,
                     <<"t","a","x"," ","p","r","e","p","a","r","a","t","i","o","n">> >>],
       [key |-> <<"r","e","c","r","u","i","t","i","n","g">>,
       synonyms |-> << <<"r","e","c","r","u","i","t","i","n","g">>,
                     <<"r","e","c","r","u","i","t","m","e","n","t">>,
                     <<"t","a","l","e","n","t"," ","a","c","q","u","i","s","i","t","i","o","n">>,
                     <<"h","i","r","i","n","g">> >>],
       [key |-> <<"o","n","b","o","a","r","d","i","n","g">>,
       synonyms |-> << <<"o","n","b","o","a","r","d","i","n","g">>,
                     <<"e","m","p","l","o","y","e","e"," ","o","n","b","o","a","r","d","i","n","g">>,
                     <<"n","e","w"," ","h","i","r","e">> >>],
       [key |-> <<"p","e","r","f","o","r","m","a","n","c","e"," ","m","a","n","a","g","e","m","e","n","t">>,
       synonyms |-> << <<"p","e","r","f","o","r","m","a","n","c","e"," ","m","a","n","a","g","e","m","e","n","t">>,
                     <<"p","e","r","f","o","r","m","a","n","c","e"," ","r","e","v","i","e","w","s">>,
                     <<"a","p","p","r","a","i","s","a","l">> >>],
       [key |-> <<"c","o","m","p","e","n","s","a","t","i","o","n">>,
       synonyms |-> << <<"c","o","m","p","e","n","s","a","t","i","o","n">>,
                     <<"b","e","n","e","f","i","t","s">>,
                     <<"c","o","m","p","e","n","s","a","t","i","o","n"," ","a","n","d"," ","b","e","n","e","f","i","t","s">> >>],
       [key |-> <<"h","r","i","s">>,
       synonyms |-> << <<"h","r","i","s">>,
                     <<"h","u","m","a","n"," ","r","e","s","o","u","r","c","e","s"," ","i","n","f","o","r","m","a","t","i","o","n"," ","s","y","s","t","e","m">>,
                     <<"h","r"," ","s","o","f","t","w","a","r","e">> >>],
       [key |-> <<"t","r","a","i","n","i","n","g">>,
       synonyms |-> << <<"t","r","a","i","n","i","n","g">>,
                     <<"e","m","p","l","o","y","e","e"," ","t","r","a","i","n","i","n","g">>,
                     <<"l","e","a","r","n","i","n","g"," ","a","n","d"," ","d","e","v","e","l","o","p","m","e","n","t">>,
                     <<"l","&","d">> >>],
       [key |-> <<"s","a","l","e","s">>,
       synonyms |-> << <<"s","a","l","e","s">>,
                     <<"s","e","l","l","i","n","g">>,
                     <<"b","u","s","i","n","e","s","s"," ","d","e","v","e","l","o","p","m","e","n","t">>,
                     <<"r","e","v","e","n","u","e">> >>],
       [key |-> <<"c","r","m">>,
       synonyms |-> << <<"c","r","m">>,
                     <<"c","u","s","t","o","m","e","r"," ","r","e","l","a","t","i","o","n","s","h","i","p"," ","m","a","n","a","g","e","m","e","n","t">>,
                     <<"s","a","l","e","s","f","o","r","c","e">> >>],
       [key |-> <<"l","e","a","d"," ","g","e","n","e","r","a","t","i","o","n">>,
       synonyms |-> << <<"l","e","a","d"," ","g","e","n","e","r","a","t","i","o","n">>,
                     <<"p","r","o","s","p","e","c","t","i","n","g">>,
                     <<"l","e","a","d","s">> >>],
       [key |-> <<"n","e","g","o","t","i","a","t","i","o","n">>,
       synonyms |-> << <<"n","e","g","o","t","i","a","t","i","o","n">>,
                     <<"c","o","n","t","r","a","c","t"," ","n","e","g","o","t","i","a","t","i","o","n">>,
                     <<"d","e","a","l"," ","c","l","o","s","i","n","g">> >>],
       [key |-> <<"p","i","p","e","l","i","n","e">>,
       synonyms |-> << <<"p","i","p","e","l","i","n","e">>,
                     <<"s","a","l","e","s"," ","p","i","p","e","l","i","n","e">>,
                     <<"s","a","l","e","s"," ","f","u","n","n","e","l">> >>],
       [key |-> <<"p","a","t","i","e","n","t"," ","c","a","r","e">>,
       synonyms |-> << <<"p","a","t","i","e","n","t"," ","c","a","r","e">>,
                     <<"c","l","i","n","i","c","a","l"," ","c","a","r","e">>,
                     <<"h","e","a","l","t","h","c","a","r","e">> >>],
       [key |-> <<"e","l","e","c","t","r","o","n","i","c"," ","h","e","a","l","t","h"," ","r","e","c","o","r","d","s">>,
       synonyms |-> << <<"e","h","r">>,
                     <<"e","l","e","c","t","r","o","n","i","c"," ","h","e","a","l","t","h"," ","r","e","c","o","r","d","s">>,
                     <<"e","m","r">>,
                     <<"m","e","d","i","c","a","l"," ","r","e","c","o","r","d","s">> >>],
       [key |-> <<"n","u","r","s","i","n","g">>,
       synonyms |-> << <<"n","u","r","s","i","n","g">>,
                     <<"r","e","g","i","s","t","e","r","e","d"," ","n","u","r","s","e">>,
                     <<"r","n">>,
                     <<"c","l","i","n","i","c","a","l"," ","n","u","r","s","i","n","g">> >>],
       [key |-> <<"h","i","p","a","a">>,
       synonyms |-> << <<"h","i","p","a","a">>,
                     <<"p","a","t","i","e","n","t"," ","p","r","i","v","a","c","y">>,
                     <<"h","e","a","l","t","h","c","a","r","e"," ","c","o","m","p","l","i","a","n","c","e">> >>],
       [key |-> <<"p","r","o","j","e","c","t"," ","m","a","n","a","g","e","m","e","n","t">>,
       synonyms |-> << <<"p","r","o","j","e","c","t"," ","m","a","n","a","g","e","m","e","n","t">>,
                     <<"p","m","p">>,
                     <<"p","r","o","j","e","c","t"," ","m","a","n","a","g","e","r">> >>],
       [key |-> <<"s","t","a","k","e","h","o","l","d","e","r">>,
       synonyms |-> << <<"s","t","a","k","e","h","o","l","d","e","r">>,
                     <<"s","t","a","k","e","h","o","l","d","e","r","s">>,
                     <<"s","t","a","k","e","h","o","l","d","e","r"," ","m","a","n","a","g","e","m","e","n","t">> >>],
       [key |-> <<"t","i","m","e","l","i","n","e">>,
       synonyms |-> << <<"t","i","m","e","l","i","n","e">>,
                     <<"s","c","h","e","d","u","l","e">>,
                     <<"s","c","h","e","d","u","l","i","n","g">>,
                     <<"p","l","a","n","n","i","n","g">> >>],
       [key |-> <<"r","i","s","k"," ","m","a","n","a","g","e","m","e","n","t">>,
       synonyms |-> << <<"r","i","s","k"," ","m","a","n","a","g","e","m","e","n","t">>,
                     <<"r","i","s","k"," ","a","s","s","e","s","s","m","e","n","t">>,
                     <<"r","i","s","k"," ","m","i","t","i","g","a","t","i","o","n">> >>],
       [key |-> <<"l","e","a","d","e","r","s","h","i","p">>,
       synonyms |-> << <<"l","e","a","d","e","r","s","h","i","p">>,
                     <<"t","e","a","m"," ","l","e","a","d","e","r","s","h","i","p">>,
                     <<"m","a","n","a","g","i","n","g">>,
                     <<"m","a","n","a","g","e","m","e","n","t">> >>],
       [key |-> <<"c","o","m","m","u","n","i","c","a","t","i","o","n">>,
       synonyms |-> << <<"c","o","m","m","u","n","i","c","a","t","i","o","n">>,
                     <<"c","o","m","m","u","n","i","c","a","t","i","o","n","s">>,
                     <<"v","e","r","b","a","l"," ","c","o","m","m","u","n","i","c","a","t","i","o","n">>,
                     <<"w","r","i","t","t","e","n"," ","c","o","m","m","u","n","i","c","a","t","i","o","n">> >>],
       [key |-> <<"c","o","l","l","a","b","o","r","a","t","i","o","n">>,
       synonyms |-> << <<"c","o","l","l","a","b","o","r","a","t","i","o","n">>,
                     <<"t","e","a","m","w","o","r","k">>,
                     <<"c","r","o","s","s","-","f","u","n","c","t","i","o","n","a","l">> >>],
       [key |-> <<"p","r","o","b","l","e","m"," ","s","o","l","v","i","n","g">>,
       synonyms |-> << <<"p","r","o","b","l","e","m"," ","s","o","l","v","i","n","g">>,
                     <<"p","r","o","b","l","e","m","-","s","o","l","v","i","n","g">>,
                     <<"a","n","a","l","y","t","i","c","a","l">> >>],
       [key |-> <<"c","u","s","t","o","m","e","r"," ","s","e","r","v","i","c","e">>,
       synonyms |-> << <<"c","u","s","t","o","m","e","r"," ","s","e","r","v","i","c","e">>,
                     <<"c","u","s","t","o","m","e","r"," ","s","u","p","p","o","r","t">>,
                     <<"c","l","i","e","n","t"," ","s","e","r","v","i","c","e">> >>] >>

---------------------------------------------------------------------------
(* Keyword extraction (app.py:259-271).                                    *)

IsTokenChar(c) == IsWordChar(c) \/ c \in {"+", "/", "#", "-"}

\* re.findall(r'\b[\w+/#-]+\b', s), scanning from offset p
RECURSIVE FindWordsFrom(_, _)
FindWordsFrom(s, p) ==
    LET start == FirstAt(p, Len(s) - 1,
                         LAMBDA q : Boundary(s, q) /\ IsTokenChar(s[q + 1]))
        runEnd == FirstAt(start + 1, Len(s), LAMBDA i : ~IsTokenChar(s[i])) - 1
        end == LastAt(start + 1, runEnd, LAMBDA e : Boundary(s, e))
    IN  IF start > Len(s) - 1 THEN <<>>
        ELSE IF end < start + 1 THEN FindWordsFrom(s, start + 1)
        ELSE <<Slice(s, start + 1, end)>> \o FindWordsFrom(s, end)

FindWords(s) == FindWordsFrom(s, 0)

\* word.strip('/#-')
WordClean(word) == StripChars(word, {"/", "#", "-"})

\* faulty variant of KeepsWord: words of two characters are kept too
KeepsWordOfTwo(word_clean) == Len(word_clean) > 1 /\ word_clean \notin stopwords

KeepsWord(word_clean) == Len(word_clean) > 2 /\ word_clean \notin stopwords

\* the loop of lines 261-264 (and 268-271): the set of kept words
ExtractKeywords(lowered) ==
    LET words == FindWords(lowered)
    IN  { w \in { WordClean(words[i]) : i \in 1..Len(words) } : KeepsWord(w) }

---------------------------------------------------------------------------
(* Keyword matching (app.py:273-310).                                      *)

\* faulty variant of SynonymMatch: the cluster is looked up by its key
SynonymMatchByKey(jd_word, resume_kw, resume_lower) ==
    \E c \in 1..Len(universal_synonyms) :
        LET synonyms == universal_synonyms[c].synonyms
        IN  /\ universal_synonyms[c].key = jd_word
            /\ \E k \in 1..Len(synonyms) :
                   \/ synonyms[k] \in resume_kw
                   \/ Contains(resume_lower, synonyms[k])

\* faulty variant of SynonymMatch: synonyms are looked for among the resume
\* keywords only, not inside the resume text
SynonymMatchKeywordsOnly(jd_word, resume_kw, resume_lower) ==
    \E c \in 1..Len(universal_synonyms) :
        LET synonyms == universal_synonyms[c].synonyms
        IN  /\ \E k \in 1..Len(synonyms) : synonyms[k] = jd_word
            /\ \E k \in 1..Len(synonyms) : synonyms[k] \in resume_kw

\* lines 286-293: some cluster lists jd_word and one of its synonyms is a
\* resume keyword or a substring of the lower-cased resume
SynonymMatch(jd_word, resume_kw, resume_lower) ==
    \E c \in 1..Len(universal_synonyms) :
        LET synonyms == universal_synonyms[c].synonyms
        IN  /\ \E k \in 1..Len(synonyms) : synonyms[k] = jd_word
            /\ \E k \in 1..Len(synonyms) :
                   \/ synonyms[k] \in resume_kw
                   \/ Contains(resume_lower, synonyms[k])

Prefix(w, n) == Slice(w, 1, Min(n, Len(w)))

\* the condition of lines 302-304
FuzzyRule(jd_word, resume_word) ==
    \/ Contains(resume_word, jd_word)
    \/ Contains(jd_word, resume_word)
    \/ (Len(jd_word) > 3 /\ Len(resume_word) > 3
        /\ Prefix(jd_word, 3) = Prefix(resume_word, 3))
    \/ (Len(jd_word) > 5 /\ Len(resume_word) > 5
        /\ Prefix(jd_word, 5) = Prefix(resume_word, 5))

\* faulty variant of FuzzyMatch: the loop gives up after the first resume keyword
FuzzyMatchFirstOnly(jd_word, resume_order) ==
    /\ Len(jd_word) > 3
    /\ Len(resume_order) >= 1
    /\ Len(resume_order[1]) > 3
    /\ FuzzyRule(jd_word, resume_order[1])

\* faulty variant of FuzzyMatch: JD keywords of any length are tried
FuzzyMatchAnyLength(jd_word, resume_order) ==
    FirstAt(1, Len(resume_order),
            LAMBDA i : Len(resume_order[i]) > 3
                       /\ FuzzyRule(jd_word, resume_order[i]))
        <= Len(resume_order)

\* lines 297-307: the loop over the resume keywords, in the order given,
\* stops at the first one that matches
FuzzyMatch(jd_word, resume_order) ==
    /\ Len(jd_word) > 3
    /\ FirstAt(1, Len(resume_order),
               LAMBDA i : Len(resume_order[i]) > 3
                          /\ FuzzyRule(jd_word, resume_order[i]))
           <= Len(resume_order)

\* faulty variant of SemanticLoop: without the `continue` of lines 281-282 an exact
\* match is looked up again and counted a second time
RECURSIVE SemanticLoopCountingExact(_, _, _, _, _)
SemanticLoopCountingExact(jd_order, i, exact, resume_order, resume_lower) ==
    IF i = 0
    THEN [semantic_matches |-> 0, semantic_matched_jd_words |-> {}]
    ELSE LET before == SemanticLoopCountingExact(jd_order, i - 1, exact,
                                                 resume_order, resume_lower)
             jd_word == jd_order[i]
             counted ==
                 [semantic_matches |-> before.semantic_matches + 1,
                  semantic_matched_jd_words |->
                      before.semantic_matched_jd_words \cup {jd_word}]
         IN  IF SynonymMatch(jd_word, Range(resume_order), resume_lower)
             THEN counted
             ELSE IF FuzzyMatch(jd_word, resume_order) THEN counted
             ELSE before

\* lines 277-307: the loop over the JD keywords, in the order given; the
\* value is (semantic_matches, semantic_matched_jd_words) after i keywords
RECURSIVE SemanticLoop(_, _, _, _, _)
SemanticLoop(jd_order, i, exact, resume_order, resume_lower) ==
    IF i = 0
    THEN [semantic_matches |-> 0, semantic_matched_jd_words |-> {}]
    ELSE LET before == SemanticLoop(jd_order, i - 1, exact, resume_order,
                                    resume_lower)
             jd_word == jd_order[i]
             counted ==
                 [semantic_matches |-> before.semantic_matches + 1,
                  semantic_matched_jd_words |->
                      before.semantic_matched_jd_words \cup {jd_word}]
         IN  IF jd_word \in exact THEN before
             ELSE IF SynonymMatch(jd_word, Range(resume_order), resume_lower)
             THEN counted
             ELSE IF FuzzyMatch(jd_word, resume_order) THEN counted
             ELSE before

\* line 310, as the fraction total_matches * 100 / len(jd_keywords)
KeywordScore(total_matches, jd_count) ==
    IF jd_count > 0 THEN [num |-> total_matches * 100, den |-> jd_count]
    ELSE [num |-> 0, den |-> 1]

---------------------------------------------------------------------------
(* Phrases (app.py:312-331) and achievements (app.py:333-335).             *)

\* faulty variant of CriticalPhrases: the short words and the stopwords are
\* dropped first, and the pairs are taken from the words that are left
CriticalPhrasesOfContentWords(jd_lower) ==
    LET jd_words == FindWords(jd_lower)
        content == SelectSeq([i \in 1..Len(jd_words) |-> WordClean(jd_words[i])],
                             LAMBDA w : Len(w) > 3 /\ w \notin stopwords)
    IN  [i \in 1..Max(Len(content) - 1, 0) |->
            content[i] \o <<" ">> \o content[i + 1]]

\* lines 317-323
CriticalPhrases(jd_lower) ==
    LET jd_words == FindWords(jd_lower)
        Pair(i) == <<WordClean(jd_words[i]), WordClean(jd_words[i + 1])>>
        Kept(i) == /\ Len(Pair(i)[1]) > 3 /\ Len(Pair(i)[2]) > 3
                   /\ Pair(i)[1] \notin stopwords
                   /\ Pair(i)[2] \notin stopwords
        RECURSIVE Build(_)
        Build(i) ==
            IF i = 0 THEN <<>>
            ELSE IF Kept(i)
            THEN Append(Build(i - 1), Pair(i)[1] \o <<" ">> \o Pair(i)[2])
            ELSE Build(i - 1)
    IN  Build(Max(Len(jd_words) - 1, 0))

\* faulty variant of PhraseMatches: a phrase that the JD repeats is counted
\* once
PhraseMatchesDistinct(phrases, resume_lower) ==
    Cardinality({ phrases[i] : i \in { j \in 1..Len(phrases) :
                                         Contains(resume_lower, phrases[j]) } })

\* line 326
PhraseMatches(phrases, resume_lower) ==
    Cardinality({ i \in 1..Len(phrases) : Contains(resume_lower, phrases[i]) })

\* faulty variant of PhraseScore: the default of 60 is returned as it is,
\* without the bonus of lines 330-331
PhraseScoreDefaultAsIs(phrase_matches, phrase_count) ==
    IF phrase_count = 0 THEN [num |-> 60, den |-> 1]
    ELSE IF phrase_matches > 0
    THEN [num |-> Min(phrase_matches * 100 + 20 * phrase_count,
                      100 * phrase_count),
          den |-> phrase_count]
    ELSE [num |-> 0, den |-> phrase_count]

\* lines 328-331
PhraseScore(phrase_matches, phrase_count) ==
    LET base == IF phrase_count > 0
                THEN [num |-> phrase_matches * 100, den |-> phrase_count]
                ELSE [num |-> 60, den |-> 1]
    IN  IF base.num > 0
        THEN [num |-> Min(base.num + 20 * base.den, 100 * base.den),
              den |-> base.den]
        ELSE base

\* len(re.findall(r'\b\d+[%]?\b', s)), scanning from offset p
RECURSIVE CountNumbersFrom(_, _)
CountNumbersFrom(s, p) ==
    LET start == FirstAt(p, Len(s) - 1,
                         LAMBDA q : Boundary(s, q) /\ IsDigit(s[q + 1]))
        runEnd == FirstAt(start + 1, Len(s), LAMBDA i : ~IsDigit(s[i])) - 1
        withPercent == /\ runEnd + 1 <= Len(s)
                       /\ s[runEnd + 1] = "%"
                       /\ Boundary(s, runEnd + 1)
    IN  IF start > Len(s) - 1 THEN 0
        ELSE IF withPercent THEN 1 + CountNumbersFrom(s, runEnd + 1)
        ELSE IF Boundary(s, runEnd) THEN 1 + CountNumbersFrom(s, runEnd)
        ELSE CountNumbersFrom(s, start + 1)

\* faulty variant of AchievementScore: 10 points a token, without the cap
AchievementScoreUncapped(numbers_in_resume) == numbers_in_resume * 10

\* line 335
AchievementScore(numbers_in_resume) == Min(numbers_in_resume * 10, 100)

\* faulty variant of AtsScore: the phrases weigh 25%, as the comment of line 312
\* has it, not the 0.20 of line 341
AtsScorePhrasesAQuarter(k, p, a) ==
    Round(70 * k.num * p.den + 25 * p.num * k.den + 10 * a * k.den * p.den,
          k.den * p.den)

\* lines 339-343, in hundredths: round(0.70 k + 0.20 p + 0.10 a, 2)
AtsScore(k, p, a) ==
    Round(70 * k.num * p.den + 20 * p.num * k.den + 10 * a * k.den * p.den,
          k.den * p.den)

---------------------------------------------------------------------------
(* Skills (app.py:154-164).                                                *)

FoundSkills(skills, resume) ==
    SelectSeq(skills, LAMBDA skill : Contains(Lower(resume), Lower(skill)))

SkillScore(found_count, total_skills) ==
    IF total_skills > 0 THEN Round(found_count * 100, total_skills) ELSE 0

---------------------------------------------------------------------------
(* simple_grammar_check (app.py:60-91).                                    *)

IsSentenceEnd(c) == c \in {".", "!", "?"}

\* re.split(r'[.!?]+', s), for the part of s from index p on
RECURSIVE SplitFrom(_, _)
SplitFrom(s, p) ==
    LET sep == FirstAt(p, Len(s), LAMBDA i : IsSentenceEnd(s[i]))
        next == FirstAt(sep, Len(s), LAMBDA i : ~IsSentenceEnd(s[i]))
    IN  IF sep > Len(s) THEN <<Slice(s, p, Len(s))>>
        ELSE <<Slice(s, p, sep - 1)>> \o SplitFrom(s, next)

SplitSentences(s) == SplitFrom(s, 1)

\* str.capitalize()
Capitalize(s) ==
    SubSeq([i \in 1..Len(s) |->
                IF i = 1 THEN UpperChar(s[i]) ELSE LowerChar(s[i])], 1, Len(s))

\* s.replace('  ', ' '), for the part of s from index p on
RECURSIVE ReplaceFrom(_, _)
ReplaceFrom(s, p) ==
    LET at == FirstAt(p, Len(s) - 1, LAMBDA i : s[i] = " " /\ s[i + 1] = " ")
    IN  IF at > Len(s) - 1 THEN Slice(s, p, Len(s))
        ELSE Slice(s, p, at - 1) \o <<" ">> \o ReplaceFrom(s, at + 2)

ReplaceDoubleSpaces(s) == ReplaceFrom(s, 1)

CapitalMessage == "Sentence should start with a capital letter"
SpacesMessage == "Multiple consecutive spaces found"

Issue(message, suggestion, sentence) ==
    [message |-> message, suggestions |-> <<suggestion>>,
     context |-> Slice(sentence, 1, Min(Len(sentence), 100)),
     offset |-> -1, length |-> 0]

\* faulty variant of SentenceIssues: the double space is looked for in the
\* piece as split, before strip()
SentenceIssuesUnstripped(piece, i) ==
    LET sentence == Strip(piece)
        capital == IF sentence # <<>> /\ IsLowerChar(sentence[1]) /\ i > 0
                   THEN <<Issue(CapitalMessage, Capitalize(sentence), sentence)>>
                   ELSE <<>>
        spaces == IF Contains(piece, <<" ", " ">>)
                  THEN <<Issue(SpacesMessage, ReplaceDoubleSpaces(sentence),
                               sentence)>>
                  ELSE <<>>
    IN  IF sentence = <<>> THEN <<>> ELSE capital \o spaces

\* lines 72-89, for the piece at index i (from 0) of the split
SentenceIssues(piece, i) ==
    LET sentence == Strip(piece)
        capital == IF sentence # <<>> /\ IsLowerChar(sentence[1]) /\ i > 0
                   THEN <<Issue(CapitalMessage, Capitalize(sentence), sentence)>>
                   ELSE <<>>
        spaces == IF Contains(sentence, <<" ", " ">>)
                  THEN <<Issue(SpacesMessage, ReplaceDoubleSpaces(sentence),
                               sentence)>>
                  ELSE <<>>
    IN  IF sentence = <<>> THEN <<>> ELSE capital \o spaces

\* the issues of the first n pieces, in order
RECURSIVE IssuesOf(_, _)
IssuesOf(sentences, n) ==
    IF n = 0 THEN <<>>
    ELSE IssuesOf(sentences, n - 1) \o SentenceIssues(sentences[n], n - 1)

\* faulty variant of simple_grammar_check: every sentence is inspected
simple_grammar_check_unlimited(s) ==
    LET sentences == SplitSentences(s)
        issues == IssuesOf(sentences, Len(sentences))
    IN  Slice(issues, 1, Min(Len(issues), 8))

simple_grammar_check(s) ==
    LET sentences == SplitSentences(s)
        issues == IssuesOf(sentences, Min(Len(sentences), 10))
    IN  Slice(issues, 1, Min(Len(issues), 8))

\* faulty variant of GrammarPenalty: 2 points a finding, without the cap
GrammarPenaltyUncapped(issues) == Len(issues) * 2

\* line 362
GrammarPenalty(issues) == Min(Len(issues) * 2, 10)

---------------------------------------------------------------------------
(* The final score (app.py:364-375).                                       *)

\* faulty variant of HasJobDescription: the test without .strip()
HasJobDescriptionUnstripped(jd) == jd # <<>>

\* `job_description and job_description.strip()` (lines 171 and 366)
HasJobDescription(jd) == jd # <<>> /\ Strip(jd) # <<>>

\* faulty variant of ScoreWithJD: the JD-derived score counted once
ScoreWithJDCountedOnce(skill, similarity, ats, penalty) ==
    Round(1500 * skill + 40 * similarity - 10000 * penalty, 10000)

\* line 369, similarity and ats in hundredths
ScoreWithJD(skill, similarity, ats, penalty) ==
    Round(1500 * skill + 40 * similarity + 45 * ats - 10000 * penalty, 10000)

\* faulty variant of ScoreWithoutJD: resume_quality without its cap of 100
ScoreWithoutJDUncapped(skill, text_length, penalty) ==
    Round(3500 * skill + 30 * text_length - 5000 * penalty, 5000)

\* lines 372-373: resume_quality = min(100, len(text) / 50)
ScoreWithoutJD(skill, text_length, penalty) ==
    Round(3500 * skill + 30 * Min(5000, text_length) - 5000 * penalty, 5000)

\* faulty variant of Clamp: only the upper bound is enforced
ClampUpperOnly(x) == Min(x, 100)

\* line 375
Clamp(x) == Min(Max(x, 0), 100)

---------------------------------------------------------------------------
(* The inputs explored.                                                    *)

MaxJdWords == 2
MaxResumeChunks == 2
LongJdWords == 32
StressSentences == 6
LongResumeLength == 5100

Space == <<" ">>

RECURSIVE Concat(_)
Concat(seqs) == IF seqs = <<>> THEN <<>> ELSE Head(seqs) \o Concat(Tail(seqs))

RECURSIVE Join(_, _)
Join(words, sep) ==
    IF Len(words) = 0 THEN <<>>
    ELSE IF Len(words) = 1 THEN words[1]
    ELSE words[1] \o sep \o Join(Tail(words), sep)

SeqsUpTo(S, n) == UNION { [1..k -> S] : k \in 0..n }

\* words a job description is made of
JdVocabulary ==
    { <<"p", "y", "t", "h", "o", "n">>, <<"s", "q", "l">>, <<"d", "a", "t", "a", "b", "a", "s", "e">>, <<"e", "n", "g", "i", "n", "e", "e", "r">>, <<"t", "h", "e">> }

\* "role1" ... "role32": more than 30 distinct keywords of two lengths
Decimal(n) ==
    IF n < 10 THEN <<DigitChars[n + 1]>>
    ELSE <<DigitChars[(n \div 10) + 1], DigitChars[(n % 10) + 1]>>

LongJobDescription ==
    Join([i \in 1..LongJdWords |-> <<"r", "o", "l", "e">> \o Decimal(i)], Space)

\* pieces a resume text is made of, each with the separator that follows it
ResumeChunks ==
    { <<"P", "y", "t", "h", "o", "n", " ">>, <<"m", "y", "s", "q", "l", ".", " ">>, <<"e", "n", "g", "i", "n", "e", "e", "r", "i", "n", "g", " ", " ", "2", "0", "%", " ">> }

\* sentences that each start in lower case and hold a double space
StressResume == Concat([i \in 1..StressSentences |-> <<"l", "e", "d", " ", " ", "t", "e", "a", "m", "s", ".", " ">>])

\* a text of more than 5000 characters: a short word and a rule of stars
LongResume ==
    SubSeq([i \in 1..LongResumeLength |-> IF i <= 2 THEN "x" ELSE "*"],
           1, LongResumeLength)

ShortJobDescriptions ==
    { Join(ws, Space) : ws \in SeqsUpTo(JdVocabulary, MaxJdWords) }

ShortResumeTexts ==
    { Concat(cs) : cs \in SeqsUpTo(ResumeChunks, MaxResumeChunks) }

MatcherExampleJd == <<"P", "y", "t", "h", "o", "n", " ", "S", "Q", "L", " ", "d", "a", "t", "a", "b", "a", "s", "e", " ", "e", "x", "p", "e", "r", "i", "e", "n", "c", "e", " ", "r", "e", "q", "u", "i", "r", "e", "d">>
MatcherExampleResume ==
    <<"5", " ", "y", "e", "a", "r", "s", " ", "o", "f", " ", "P", "y", "t", "h", "o", "n", " ", "a", "n", "d", " ", "M", "y", "S", "Q", "L", " ", "d", "e", "v", "e", "l", "o", "p", "m", "e", "n", "t", ",", " ", "i", "m", "p", "r", "o", "v", "e", "d", " ", "t", "h", "r", "o", "u", "g", "h", "p", "u", "t", " ", "b", "y", " ", "2", "0", "%">>

\* a JD with one keyword of each outcome for the resume below: "sql" is in
\* the resume, "python" has its synonym "py" inside "copy", "engineer" is
\* inside "engineering", "required" matches nothing
OutcomesExampleJd == <<"s", "q", "l", " ", "p", "y", "t", "h", "o", "n", " ", "e", "n", "g", "i", "n", "e", "e", "r", " ", "r", "e", "q", "u", "i", "r", "e", "d">>
OutcomesExampleResume == <<"S", "Q", "L", " ", "c", "o", "p", "y", " ", "e", "n", "g", "i", "n", "e", "e", "r", "i", "n", "g">>

\* a JD that holds the phrase "python engineer" twice
RepeatedPhraseJd == <<"p", "y", "t", "h", "o", "n", " ", "e", "n", "g", "i", "n", "e", "e", "r", " ", "p", "y", "t", "h", "o", "n", " ", "e", "n", "g", "i", "n", "e", "e", "r">>

\* a three-letter JD keyword inside a resume keyword, and a JD keyword that
\* contains a three-letter resume keyword
ShortWordsExampleJd == <<"e", "n", "g", " ", "r", "e", "q", "u", "i", "r", "e", "d">>
ShortWordsExampleResume == <<"P", "y", "t", "h", "o", "n", " ", "e", "n", "g", "i", "n", "e", "e", "r", "i", "n", "g", " ", "r", "e", "q">>

\* requests of the scenarios: the example of the matcher, one keyword of
\* each outcome, three-letter keywords, a JD that repeats a phrase, a JD
\* whose second phrase is absent, and resume texts for the grammar check
\* (the last one with a skill and more findings than are returned)
ScenarioRequests ==
    { << MatcherExampleJd, MatcherExampleResume >>,
      << OutcomesExampleJd, OutcomesExampleResume >>,
      << ShortWordsExampleJd, ShortWordsExampleResume >>,
      << RepeatedPhraseJd, <<"P", "y", "t", "h", "o", "n", " ", "e", "n", "g", "i", "n", "e", "e", "r", "i", "n", "g", " ", " ", "2", "0", "%", " ">> >>,
      << <<"p", "y", "t", "h", "o", "n", " ", "e", "n", "g", "i", "n", "e", "e", "r", " ", "d", "a", "t", "a", "b", "a", "s", "e">>, <<"P", "y", "t", "h", "o", "n", " ", "e", "n", "g", "i", "n", "e", "e", "r", "i", "n", "g", " ", " ", "2", "0", "%", " ">> >>,
      << <<>>, <<"L", "e", "d", " ", "t", "e", "a", "m", "s", ".", " ", "w", "e", " ", " ", "s", "h", "i", "p", "p", "e", "d", ".">> >>,
      << <<>>, <<"L", "e", "d", " ", "t", "e", "a", "m", "s", ".", " ", " ", "w", "e", " ", "s", "h", "i", "p", "p", "e", "d", ".">> >>,
      << <<>>, <<"L", "e", "d", " ", " ", "t", "e", "a", "m", "s", ".", " ", "w", "e", " ", " ", "s", "h", "i", "p", "p", "e", "d", ".">> >>,
      << <<>>, <<"P", "y", "t", "h", "o", "n", " ">> \o StressResume >> }

\* (job description, resume text): the short ones in every combination,
\* the long resume texts with no, a blank and the long job description, and
\* the scenarios
Requests ==
    (ShortJobDescriptions \X ShortResumeTexts)
        \cup ({<<>>, Space, LongJobDescription} \X {StressResume, LongResume})
        \cup ScenarioRequests

\* line 21, and lists a skills.json can hold (lines 22-27)
DefaultSkills ==
    << <<"P", "y", "t", "h", "o", "n">>, <<"M", "a", "c", "h", "i", "n", "e", " ", "L", "e", "a", "r", "n", "i", "n", "g">>, <<"D", "a", "t", "a", " ", "S", "c", "i", "e", "n", "c", "e">>, <<"R", "e", "a", "c", "t">>, <<"S", "Q", "L">> >>

SkillLists == { DefaultSkills, << <<"P", "y", "t", "h", "o", "n">> >>, <<>> }

---------------------------------------------------------------------------
(* The name of an upload (app.py:95-96, 129-132) and the datastore         *)
(* collection 'resume_analysis' (app.py:389-403, history_api.py:20).       *)

ALLOWED_EXTENSIONS == { <<"p", "d", "f">>, <<"d", "o", "c", "x">>, <<"d", "o", "c">> }

\* filename.rsplit('.', 1)[1] for a filename with a '.': what follows the
\* last one
Extension(filename) ==
    Slice(filename,
          LastAt(1, Len(filename), LAMBDA i : filename[i] = ".") + 1,
          Len(filename))

\* lines 95-96
allowed_file(filename) ==
    /\ Contains(filename, <<".">>)
    /\ Lower(Extension(filename)) \in ALLOWED_EXTENSIONS

\* "_".join(s.split()), from index p on: the runs of whitespace inside s
\* become one '_', those at its ends vanish
RECURSIVE JoinWordsFrom(_, _)
JoinWordsFrom(s, p) ==
    LET start == FirstAt(p, Len(s), LAMBDA i : ~IsSpace(s[i]))
        stop == FirstAt(start, Len(s), LAMBDA i : IsSpace(s[i]))
        rest == JoinWordsFrom(s, stop)
    IN  IF start > Len(s) THEN <<>>
        ELSE IF rest = <<>> THEN Slice(s, start, stop - 1)
        ELSE Slice(s, start, stop - 1) \o <<"_">> \o rest

\* werkzeug.utils.secure_filename for an ASCII name on a POSIX system: '/'
\* becomes a space, the words are joined by '_', every character other
\* than A-Z, a-z, 0-9, '_', '.' and '-' is dropped, and '.' and '_' are
\* stripped from both ends
secure_filename(filename) ==
    LET spaced == SubSeq([i \in 1..Len(filename) |->
                             IF filename[i] = "/" THEN " " ELSE filename[i]],
                         1, Len(filename))
        joined == JoinWordsFrom(spaced, 1)
        kept == SelectSeq(joined, LAMBDA c : IsWordChar(c) \/ c \in {".", "-"})
    IN  StripChars(kept, {".", "_"})

\* the names a client gives its upload: a plain one, one that the
\* sanitizer changes, one that it leaves without a '.', and one with an
\* extension that is not allowed
Filenames ==
    { <<"r", "e", "s", "u", "m", "e", ".", "p", "d", "f">>, <<"m", "y", " ", "r", "e", "s", "u", "m", "e", ".", "d", "o", "c", "x">>, <<"#", ".", "p", "d", "f">>, <<"n", "o", "t", "e", "s", ".", "t", "x", "t">> }

\* the paths under the uploads folder that a request can write to
UploadPaths == { secure_filename(name) : name \in { n \in Filenames : allowed_file(n) } }

MaxDocuments == 3

\* the ids of the documents of the collection
DocumentIds == 1..MaxDocuments

\* the collection with no document in it
NoDocuments == [id \in DocumentIds |-> None]

---------------------------------------------------------------------------
(* analyze_resume (app.py:119-412), from the extracted text on.            *)

Unset == [num |-> 0, den |-> 1]

\* the uploads folder with no file in it
NoUploads == [name \in UploadPaths |-> None]

\* the datastore while no request that uses it is followed
StoreIdle ==
    /\ db = FALSE
    /\ resume_analysis = NoDocuments
    /\ deletes = <<>>

Init ==
    /\ pc = "extracted"
    /\ SKILLS \in SkillLists
    /\ \E request \in Requests :
          /\ job_description = request[1]
          /\ text = request[2]
    /\ found_skills = <<>>
    /\ skill_score = 0
    /\ jd_keywords = {}
    /\ resume_keywords = {}
    /\ exact_matches = {}
    /\ semantic_matched_jd_words = {}
    /\ keyword_score = Unset
    /\ critical_phrases_jd = <<>>
    /\ phrase_score = Unset
    /\ achievement_score = 0
    /\ ats_score = 0
    /\ similarity_with_jd = None
    /\ missing_keywords = <<>>
    /\ grammar_issues = <<>>
    /\ score = None
    /\ result = None
    /\ uploads = NoUploads
    /\ requests = <<>>
    /\ StoreIdle

\* lines 147-152: an empty extraction is rejected before any scoring
RejectEmpty ==
    /\ pc = "extracted"
    /\ Strip(text) = <<>>
    /\ pc' = "rejected"
    /\ UNCHANGED <<SKILLS, job_description, text, found_skills, skill_score,
                   jd_keywords, resume_keywords, exact_matches,
                   semantic_matched_jd_words, keyword_score, phrase_score,
                   critical_phrases_jd,
                   achievement_score, ats_score, similarity_with_jd,
                   missing_keywords, grammar_issues, score, result>>
    /\ UNCHANGED <<uploadVars, storeVars>>

\* lines 154-169
ScoreSkills ==
    /\ pc = "extracted"
    /\ Strip(text) # <<>>
    /\ found_skills' = FoundSkills(SKILLS, text)
    /\ skill_score' = SkillScore(Len(found_skills'), Len(SKILLS))
    /\ pc' = "skills_scored"
    /\ UNCHANGED <<SKILLS, job_description, text, jd_keywords,
                   resume_keywords, exact_matches, semantic_matched_jd_words,
                   keyword_score, phrase_score,
                   critical_phrases_jd, achievement_score, ats_score,
                   similarity_with_jd, missing_keywords, grammar_issues,
                   score, result>>
    /\ UNCHANGED <<uploadVars, storeVars>>

\* faulty variant of SortedByLength: the list is left in the order of the set
SortedByLengthUnsorted(seq) == seq

\* lines 347-350: sorted() is stable, so keywords of one length keep the
\* order in which the set `missing` is iterated
RECURSIVE SortedByLength(_)
SortedByLength(seq) ==
    IF seq = <<>> THEN <<>>
    ELSE LET longest == FirstAt(1, Len(seq),
                                LAMBDA i : \A j \in 1..Len(seq) :
                                               Len(seq[j]) <= Len(seq[i]))
         IN  <<seq[longest]>>
                 \o SortedByLength(SubSeq(seq, 1, longest - 1)
                                       \o SubSeq(seq, longest + 1, Len(seq)))

\* faulty variant of MissingKeywords: the sorted list is not cut to 30 entries
MissingKeywordsUncut(missing_order) ==
    SortedByLength(SelectSeq(missing_order, LAMBDA w : Len(w) > 4))

MissingKeywords(missing_order) ==
    LET sorted == SortedByLength(SelectSeq(missing_order,
                                           LAMBDA w : Len(w) > 4))
    IN  Slice(sorted, 1, Min(Len(sorted), 30))

\* lines 171-350: the ATS block, when a job description is given
ScoreAgainstJD ==
    /\ pc = "skills_scored"
    /\ HasJobDescription(job_description)
    /\ jd_keywords' = ExtractKeywords(Lower(job_description))
    /\ resume_keywords' = ExtractKeywords(Lower(text))
    /\ exact_matches' = jd_keywords' \cap resume_keywords'
    /\ \E jd_order \in SetOrders(jd_keywords') :
       \E resume_order \in SetOrders(resume_keywords') :
       \E loop \in { SemanticLoop(jd_order, Len(jd_order), exact_matches',
                                  resume_order, Lower(text)) } :
          /\ semantic_matched_jd_words' = loop.semantic_matched_jd_words
          /\ keyword_score' =
                 KeywordScore(Cardinality(exact_matches')
                                  + loop.semantic_matches,
                              Cardinality(jd_keywords'))
    /\ critical_phrases_jd' = CriticalPhrases(Lower(job_description))
    /\ phrase_score' = PhraseScore(PhraseMatches(critical_phrases_jd',
                                                 Lower(text)),
                                   Len(critical_phrases_jd'))
    /\ achievement_score' = AchievementScore(CountNumbersFrom(text, 0))
    /\ ats_score' = AtsScore(keyword_score', phrase_score', achievement_score')
    /\ similarity_with_jd' = <<ats_score'>>
    /\ \E missing \in { jd_keywords' \ resume_keywords' } :
       \E missing_order \in SetOrders(missing) :
          missing_keywords' = MissingKeywords(missing_order)
    /\ pc' = "ats_scored"
    /\ UNCHANGED <<SKILLS, job_description, text, found_skills, skill_score,
                   grammar_issues, score, result>>
    /\ UNCHANGED <<uploadVars, storeVars>>

\* lines 357-359: no job description
SkipJD ==
    /\ pc = "skills_scored"
    /\ ~HasJobDescription(job_description)
    /\ missing_keywords' = <<>>
    /\ pc' = "ats_scored"
    /\ UNCHANGED <<SKILLS, job_description, text, found_skills, skill_score,
                   jd_keywords, resume_keywords, exact_matches,
                   semantic_matched_jd_words, keyword_score, phrase_score,
                   critical_phrases_jd,
                   achievement_score, ats_score, similarity_with_jd,
                   grammar_issues, score, result>>
    /\ UNCHANGED <<uploadVars, storeVars>>

\* lines 361-387 and 410
Finish ==
    /\ pc = "ats_scored"
    /\ grammar_issues' = simple_grammar_check(text)
    /\ LET grammar_penalty == GrammarPenalty(grammar_issues')
       IN  score' =
             <<Clamp(IF HasJobDescription(job_description)
                        /\ similarity_with_jd # None
                     THEN ScoreWithJD(skill_score, similarity_with_jd[1],
                                      ats_score, grammar_penalty)
                     ELSE ScoreWithoutJD(skill_score, Len(text),
                                         grammar_penalty))>>
    /\ result' = <<[skills_found |-> found_skills,
                    score |-> score'[1],
                    similarity_with_jd |-> similarity_with_jd,
                    ats_score |-> ats_score,
                    missing_keywords |-> missing_keywords,
                    grammar_issues |-> grammar_issues']>>
    /\ pc' = "done"
    /\ UNCHANGED <<SKILLS, job_description, text, found_skills, skill_score,
                   jd_keywords, resume_keywords, exact_matches,
                   semantic_matched_jd_words, keyword_score, phrase_score,
                   critical_phrases_jd,
                   achievement_score, ats_score, similarity_with_jd,
                   missing_keywords>>
    /\ UNCHANGED <<uploadVars, storeVars>>

Next == RejectEmpty \/ ScoreSkills \/ ScoreAgainstJD \/ SkipJD \/ Finish

Spec == Init /\ [][Next]_vars

---------------------------------------------------------------------------
(* The same handler on texts chosen for the extraction steps: the words    *)
(* and phrases of the JD (app.py:259-271, 312-323), the number tokens of   *)
(* the resume (app.py:333-335) and the grammar check (app.py:60-91).       *)

MaxNumberTokens == 12
MaxCleanSentences == 10
MaxSpaceRun == 4

\* capitals, a stopword, words of one and two characters, punctuation
KeywordsExampleJd == <<"T", "h", "e", " ", "-", "S", "Q", "L", "-", " ", "o", "f", " ", "C", "#", " ", "E", "n", "g", "i", "n", "e", "e", "r", "i", "n", "g", "/">>

\* two phrases, then a stopword between two long words
PhrasesExampleJd == <<"s", "e", "n", "i", "o", "r", " ", "p", "y", "t", "h", "o", "n", " ", "e", "n", "g", "i", "n", "e", "e", "r", " ", "w", "i", "t", "h", " ", "d", "a", "t", "a">>

\* job descriptions: capitals, a stopword, short words and punctuation
\* around the words; a stopword and a short word between two long words;
\* phrases, also with a hyphenated word; one word; no word at all
TextJobDescriptions ==
    { KeywordsExampleJd,
      <<"p", "y", "t", "h", "o", "n", " ", "w", "i", "t", "h", " ", "e", "n", "g", "i", "n", "e", "e", "r">>,
      <<"p", "y", "t", "h", "o", "n", " ", "s", "q", "l", " ", "e", "n", "g", "i", "n", "e", "e", "r">>,
      PhrasesExampleJd,
      <<"d", "a", "t", "a", "-", "d", "r", "i", "v", "e", "n", " ", "p", "y", "t", "h", "o", "n", " ", "e", "n", "g", "i", "n", "e", "e", "r", "i", "n", "g">>,
      <<"e", "n", "g", "i", "n", "e", "e", "r", " ", "p", "y", "t", "h", "o", "n", "i", "c">>,
      <<"p", "y", "t", "h", "o", "n">>,
      <<"-", " ", "/", " ", "#">> }

\* resumes for the keyword matching: the second and third hold several
\* keywords that the fuzzy rule accepts, and some that it does not
MatchingResumes ==
    { <<"S", "e", "n", "i", "o", "r", " ", "P", "y", "t", "h", "o", "n", " ", "e", "n", "g", "i", "n", "e", "e", "r", ",", " ", "5", " ", "y", "e", "a", "r", "s", ".">>,
      <<"E", "n", "g", "i", "n", "e", " ", "p", "y", "t", "h", "o", "n", "3", " ", "e", "n", "g", "i", "n", "e", "e", "r", "i", "n", "g", " ", "p", "y", "r", "e">>,
      <<"C", "o", "p", "y", " ", "p", "y", "x", " ", "e", "n", "g", "i", "n", "e", "s", ".">> }

\* "Led " followed by n number tokens
NumberResume(n) == <<"L", "e", "d", " ">> \o Concat([i \in 1..n |-> <<"7", "%", " ">>])

NumberResumes == { NumberResume(n) : n \in 0..MaxNumberTokens }

\* n sentences without a finding, then one that starts in lower case and
\* holds a double space
AfterCleanSentences(n) == Concat([i \in 1..n |-> <<"O", "k", ".", " ">>]) \o <<"w", "e", " ", " ", "g", "o", ".">>

\* "Led" and "teams." with n spaces between
SpacedBy(n) == <<"L", "e", "d">> \o [i \in 1..n |-> " "] \o <<"t", "e", "a", "m", "s", ".">>

\* resumes for the grammar check: punctuation before the first sentence,
\* runs of spaces of every length, findings before and after the tenth
\* sentence
GrammarResumes ==
    { <<".", " ", "w", "e", " ", "s", "h", "i", "p", "p", "e", "d", ".">>, <<"w", "e", " ", "s", "h", "i", "p", "p", "e", "d", ".", " ", "w", "e", " ", "l", "e", "f", "t", ".">>, <<"?", "!", " ", "l", "e", "d", " ", "t", "h", "e", "m", ".", " ", "T", "h", "e", "n", " ", "l", "e", "f", "t", ".">> }
        \cup { SpacedBy(n) : n \in 1..MaxSpaceRun }
        \cup { AfterCleanSentences(n) : n \in 0..MaxCleanSentences }

TextRequests ==
    (TextJobDescriptions \X MatchingResumes)
        \cup ({<<>>} \X (NumberResumes \cup GrammarResumes \cup {Space}))
        \cup ({ <<"p", "y", "t", "h", "o", "n">> } \X NumberResumes)

InitText ==
    /\ pc = "extracted"
    /\ SKILLS = DefaultSkills
    /\ \E request \in TextRequests :
          /\ job_description = request[1]
          /\ text = request[2]
    /\ found_skills = <<>>
    /\ skill_score = 0
    /\ jd_keywords = {}
    /\ resume_keywords = {}
    /\ exact_matches = {}
    /\ semantic_matched_jd_words = {}
    /\ keyword_score = Unset
    /\ critical_phrases_jd = <<>>
    /\ phrase_score = Unset
    /\ achievement_score = 0
    /\ ats_score = 0
    /\ similarity_with_jd = None
    /\ missing_keywords = <<>>
    /\ grammar_issues = <<>>
    /\ score = None
    /\ result = None
    /\ uploads = NoUploads
    /\ requests = <<>>
    /\ StoreIdle

SpecText == InitText /\ [][Next]_vars

---------------------------------------------------------------------------
(* The ATS formula (app.py:337-345) on its own: the three sub-scores of    *)
(* lines 309-335 are computed from counts, then combined.                  *)

MaxAtsKeywords == 3
ManyKeywords == 20000
MaxAtsPhrases == 2
MaxAtsNumbers == 11

\* (total_matches, len(jd_keywords)) of line 310
KeywordCounts ==
    { c \in (0..MaxAtsKeywords) \X (0..MaxAtsKeywords) : c[1] <= c[2] }
        \cup { <<ManyKeywords - 1, ManyKeywords>>,
               <<ManyKeywords, ManyKeywords>> }

\* (phrase_matches, len(critical_phrases_jd)) of lines 326-328
PhraseCounts ==
    { c \in (0..MaxAtsPhrases) \X (0..MaxAtsPhrases) : c[1] <= c[2] }

KeywordScores == { KeywordScore(c[1], c[2]) : c \in KeywordCounts }
PhraseScores == { PhraseScore(c[1], c[2]) : c \in PhraseCounts }
AchievementScores == { AchievementScore(n) : n \in 0..MaxAtsNumbers }

\* lines 309-335, with the counts given
InitAts ==
    /\ pc = "sub_scores"
    /\ SKILLS = DefaultSkills
    /\ job_description = <<>>
    /\ text = <<>>
    /\ found_skills = <<>>
    /\ skill_score = 0
    /\ jd_keywords = {}
    /\ resume_keywords = {}
    /\ exact_matches = {}
    /\ semantic_matched_jd_words = {}
    /\ keyword_score \in KeywordScores
    /\ critical_phrases_jd = <<>>
    /\ phrase_score \in PhraseScores
    /\ achievement_score \in AchievementScores
    /\ ats_score = 0
    /\ similarity_with_jd = None
    /\ missing_keywords = <<>>
    /\ grammar_issues = <<>>
    /\ score = None
    /\ result = None
    /\ uploads = NoUploads
    /\ requests = <<>>
    /\ StoreIdle

\* lines 337-345
ApplyAts ==
    /\ pc = "sub_scores"
    /\ ats_score' = AtsScore(keyword_score, phrase_score, achievement_score)
    /\ similarity_with_jd' = <<ats_score'>>
    /\ pc' = "ats_applied"
    /\ UNCHANGED <<SKILLS, job_description, text, found_skills, skill_score,
                   jd_keywords, resume_keywords, exact_matches,
                   semantic_matched_jd_words, keyword_score, phrase_score,
                   critical_phrases_jd,
                   achievement_score, missing_keywords, grammar_issues,
                   score, result>>
    /\ UNCHANGED <<uploadVars, storeVars>>

NextAts == ApplyAts

SpecAts == InitAts /\ [][NextAts]_vars

---------------------------------------------------------------------------
(* Requests in flight (app.py:120-152, 389-410): each saves its upload in  *)
(* the uploads folder under the sanitized name, reads it back, writes its  *)
(* analysis to the datastore when that is configured, and removes the      *)
(* file.  They send no job description and no userId.                      *)

MaxRequests == 2

UploadTexts == { <<"P", "y", "t", "h", "o", "n", " ">>, <<"m", "y", "s", "q", "l", ".", " ">>, Space }

\* a file that pdfminer / docx2txt turn into its text, and one on which
\* they raise
Readable(content) == [readable |-> TRUE, text |-> content]
Unreadable == [readable |-> FALSE, text |-> <<>>]

\* (file name, file) of an upload: every text and the unreadable file under
\* the plain name, one text under each of the other names
Uploads ==
    ({ <<"r", "e", "s", "u", "m", "e", ".", "p", "d", "f">> } \X ({ Readable(t) : t \in UploadTexts } \cup { Unreadable }))
        \cup ((Filenames \ { <<"r", "e", "s", "u", "m", "e", ".", "p", "d", "f">> }) \X { Readable(<<"P", "y", "t", "h", "o", "n", " ">>) })

\* the values of the scoring variables while no single request is followed
ScoringIdle ==
    /\ pc = "idle"
    /\ SKILLS = DefaultSkills
    /\ job_description = <<>>
    /\ text = <<>>
    /\ found_skills = <<>>
    /\ skill_score = 0
    /\ jd_keywords = {}
    /\ resume_keywords = {}
    /\ exact_matches = {}
    /\ semantic_matched_jd_words = {}
    /\ keyword_score = Unset
    /\ critical_phrases_jd = <<>>
    /\ phrase_score = Unset
    /\ achievement_score = 0
    /\ ats_score = 0
    /\ similarity_with_jd = None
    /\ missing_keywords = <<>>
    /\ grammar_issues = <<>>
    /\ score = None
    /\ result = None

\* lines 154-387 on the text of a request without job description
ReportWithoutJD(skills, resume) ==
    LET found == FoundSkills(skills, resume)
        issues == simple_grammar_check(resume)
    IN  [skills_found |-> found,
         score |-> Clamp(ScoreWithoutJD(SkillScore(Len(found), Len(skills)),
                                        Len(resume), GrammarPenalty(issues))),
         similarity_with_jd |-> None,
         ats_score |-> 0,
         missing_keywords |-> <<>>,
         grammar_issues |-> issues]

\* lines 392-400: the document written for a report (the timestamp is the
\* server's)
AnalysisRecord(user_id, report) ==
    [userId |-> user_id,
     score |-> report.score,
     similarity_with_jd |-> report.similarity_with_jd,
     ats_score |-> report.ats_score,
     missing_keywords |-> report.missing_keywords,
     skills_found |-> report.skills_found]

\* line 412
InvalidFileType == [status |-> 400, error |-> "Invalid file type"]
\* line 132 raises IndexError outside of any try: the framework answers
UnhandledError == [status |-> 500, error |-> "Internal Server Error"]
\* line 138
UnsupportedFileType == [status |-> 400, error |-> "Unsupported file type"]
\* line 145: extract_text or docx2txt raised
ExtractionFailed == [status |-> 500]
\* line 152
NoTextExtracted ==
    [status |-> 400, error |-> "Could not extract text from resume"]
\* line 410
Analyzed(report) == [status |-> 200, body |-> report]

InitUploads ==
    /\ ScoringIdle
    /\ uploads = NoUploads
    /\ db \in BOOLEAN
    /\ resume_analysis = NoDocuments
    /\ deletes = <<>>
    /\ requests \in [1..MaxRequests ->
                        { [pc |-> "received", filename |-> upload[1],
                           file |-> upload[2], user_id |-> "demoUser",
                           filepath |-> None, text |-> None,
                           response |-> None] : upload \in Uploads }]

\* lines 128 and 411-412: the extension of the name given is not allowed
RejectFileType(r) ==
    /\ requests[r].pc = "received"
    /\ ~allowed_file(requests[r].filename)
    /\ requests' = [requests EXCEPT ![r].pc = "responded",
                                    ![r].response = <<InvalidFileType>>]
    /\ UNCHANGED <<uploads, scoringVars, storeVars>>

\* lines 128-132: file.save(filepath), then the extension of the sanitized
\* name, which has none when the name is left without a '.'
SaveUpload(r) ==
    /\ requests[r].pc = "received"
    /\ allowed_file(requests[r].filename)
    /\ \E filename \in { secure_filename(requests[r].filename) } :
          /\ uploads' = [uploads EXCEPT ![filename] = <<requests[r].file>>]
          /\ IF Contains(filename, <<".">>)
             THEN requests' = [requests EXCEPT ![r].pc = "saved",
                                               ![r].filepath = <<filename>>]
             ELSE requests' = [requests EXCEPT ![r].pc = "responded",
                                               ![r].filepath = <<filename>>,
                                               ![r].response = <<UnhandledError>>]
    /\ UNCHANGED <<scoringVars, storeVars>>

\* lines 133-145: the text is read from filepath; the extractor raises on
\* an unreadable file and when no file is there, and the handler then
\* removes what is at filepath
ExtractText(r) ==
    /\ requests[r].pc = "saved"
    /\ \E filepath \in { requests[r].filepath[1] } :
          IF Lower(Extension(filepath)) \notin { <<"p", "d", "f">>, <<"d", "o", "c", "x">>, <<"d", "o", "c">> }
          THEN /\ requests' = [requests EXCEPT
                                  ![r].pc = "responded",
                                  ![r].response = <<UnsupportedFileType>>]
               /\ UNCHANGED uploads
          ELSE IF uploads[filepath] = None \/ ~uploads[filepath][1].readable
          THEN /\ uploads' = [uploads EXCEPT ![filepath] = None]
               /\ requests' = [requests EXCEPT
                                  ![r].pc = "responded",
                                  ![r].response = <<ExtractionFailed>>]
          ELSE /\ requests' = [requests EXCEPT
                                  ![r].pc = "extracted",
                                  ![r].text = <<uploads[filepath][1].text>>]
               /\ UNCHANGED uploads
    /\ UNCHANGED <<scoringVars, storeVars>>

\* faulty variant of RejectEmptyUpload: the file is left in the folder
RejectEmptyUploadKeepingFile(r) ==
    /\ requests[r].pc = "extracted"
    /\ Strip(requests[r].text[1]) = <<>>
    /\ requests' = [requests EXCEPT ![r].pc = "responded",
                                    ![r].response = <<NoTextExtracted>>]
    /\ UNCHANGED <<uploads, scoringVars, storeVars>>

\* lines 147-152
RejectEmptyUpload(r) ==
    /\ requests[r].pc = "extracted"
    /\ Strip(requests[r].text[1]) = <<>>
    /\ uploads' = [uploads EXCEPT ![requests[r].filepath[1]] = None]
    /\ requests' = [requests EXCEPT ![r].pc = "responded",
                                    ![r].response = <<NoTextExtracted>>]
    /\ UNCHANGED <<scoringVars, storeVars>>

\* lines 154-410: the report is computed from the text read and written to
\* the datastore under a new document id when db is set, then the file at
\* filepath is removed
RespondUpload(r) ==
    /\ requests[r].pc = "extracted"
    /\ Strip(requests[r].text[1]) # <<>>
    /\ \E report \in { ReportWithoutJD(SKILLS, requests[r].text[1]) } :
          /\ IF db
             THEN \E id \in { i \in DocumentIds : resume_analysis[i] = None } :
                     resume_analysis' =
                         [resume_analysis EXCEPT
                             ![id] = <<AnalysisRecord(requests[r].user_id,
                                                      report)>>]
             ELSE UNCHANGED resume_analysis
          /\ requests' = [requests EXCEPT ![r].pc = "responded",
                                          ![r].response = <<Analyzed(report)>>]
    /\ uploads' = [uploads EXCEPT ![requests[r].filepath[1]] = None]
    /\ UNCHANGED <<scoringVars, db, deletes>>

NextUploads ==
    \E r \in 1..MaxRequests :
        \/ RejectFileType(r)
        \/ SaveUpload(r)
        \/ ExtractText(r)
        \/ RejectEmptyUpload(r)
        \/ RespondUpload(r)

SpecUploads == InitUploads /\ [][NextUploads]_vars

---------------------------------------------------------------------------
(* Deleting history records (history_api.py:13-31): delete requests in     *)
(* flight against the collection 'resume_analysis'.                        *)

MaxDeletes == 2

Users == { "demoUser", "otherUser" }

\* request.json.get('userId', None): absent, the empty string, or a user
DeleteUserIds == { None, <<"">> } \cup { <<user>> : user \in Users }

\* request.json.get('docId', None): absent, or the id of a document
DeleteDocIds == { None } \cup { <<id>> : id \in DocumentIds }

\* the document an earlier analysis of the user stored
StoredFor(user) ==
    <<AnalysisRecord(user, ReportWithoutJD(DefaultSkills, <<"P", "y", "t", "h", "o", "n", " ">>))>>

\* the collection before the delete requests: documents of both users,
\* and one id under which nothing is stored
StoredHistory ==
    [id \in DocumentIds |->
        IF id = MaxDocuments THEN None
        ELSE IF id % 2 = 1 THEN StoredFor("demoUser")
        ELSE StoredFor("otherUser")]

MissingIds == [status |-> 400, error |-> "Missing userId or docId"]
DocumentNotFound == [status |-> 404, error |-> "Document not found"]
Unauthorized == [status |-> 403, error |-> "Unauthorized"]
DeleteSucceeded == [status |-> 200, success |-> TRUE]
DeleteFailed == [status |-> 500]

InitHistory ==
    /\ ScoringIdle
    /\ uploads = NoUploads
    /\ requests = <<>>
    /\ db = TRUE
    /\ resume_analysis = StoredHistory
    /\ deletes \in [1..MaxDeletes ->
                      [pc : {"received"},
                       user_id : DeleteUserIds,
                       doc_id : DeleteDocIds,
                       response : {None}]]

\* not user_id: absent or the empty string
NoUserId(user_id) == user_id = None \/ user_id = <<"">>

\* not doc_id, for the ids of the model
NoDocId(doc_id) == doc_id = None

RespondDelete(d, response) ==
    deletes' = [deletes EXCEPT ![d].pc = "responded",
                               ![d].response = <<response>>]

\* lines 15-18
RejectDeleteRequest(d) ==
    /\ deletes[d].pc = "received"
    /\ NoUserId(deletes[d].user_id) \/ NoDocId(deletes[d].doc_id)
    /\ RespondDelete(d, MissingIds)
    /\ UNCHANGED <<scoringVars, uploadVars, db, resume_analysis>>

\* lines 19-26 with the owner test of line 25 left out
GetDocumentOfAnyOwner(d) ==
    /\ deletes[d].pc = "received"
    /\ ~ NoUserId(deletes[d].user_id)
    /\ ~ NoDocId(deletes[d].doc_id)
    /\ IF resume_analysis[deletes[d].doc_id[1]] = None
       THEN RespondDelete(d, DocumentNotFound)
       ELSE deletes' = [deletes EXCEPT ![d].pc = "authorized"]
    /\ UNCHANGED <<scoringVars, uploadVars, db, resume_analysis>>

\* lines 19-26: doc_ref.get(), then the tests on the snapshot it returned
GetDocument(d) ==
    /\ deletes[d].pc = "received"
    /\ ~ NoUserId(deletes[d].user_id)
    /\ ~ NoDocId(deletes[d].doc_id)
    /\ LET doc == resume_analysis[deletes[d].doc_id[1]]
       IN  IF doc = None
           THEN RespondDelete(d, DocumentNotFound)
           ELSE IF doc[1].userId # deletes[d].user_id[1]
           THEN RespondDelete(d, Unauthorized)
           ELSE deletes' = [deletes EXCEPT ![d].pc = "authorized"]
    /\ UNCHANGED <<scoringVars, uploadVars, db, resume_analysis>>

\* lines 27-28: doc_ref.delete() (no error when the document is gone)
DeleteDocument(d) ==
    /\ deletes[d].pc = "authorized"
    /\ resume_analysis' =
           [resume_analysis EXCEPT ![deletes[d].doc_id[1]] = None]
    /\ RespondDelete(d, DeleteSucceeded)
    /\ UNCHANGED <<scoringVars, uploadVars, db>>

\* lines 29-31: the datastore client raises in get() or in delete()
FailDelete(d) ==
    /\ \/ /\ deletes[d].pc = "received"
          /\ ~ NoUserId(deletes[d].user_id)
          /\ ~ NoDocId(deletes[d].doc_id)
       \/ deletes[d].pc = "authorized"
    /\ RespondDelete(d, DeleteFailed)
    /\ UNCHANGED <<scoringVars, uploadVars, db, resume_analysis>>

NextHistory ==
    \E d \in 1..MaxDeletes :
        \/ RejectDeleteRequest(d)
        \/ GetDocument(d)
        \/ DeleteDocument(d)
        \/ FailDelete(d)

SpecHistory == InitHistory /\ [][NextHistory]_vars

---------------------------------------------------------------------------
(* Properties of the score report.                                         *)

Returned == pc = "done"
Report == result[1]

\* the JD keywords the keyword score counts as matched
MatchedJdWords == exact_matches \cup semantic_matched_jd_words

InPercentRange(fraction) ==
    /\ fraction.den > 0
    /\ 0 <= fraction.num
    /\ fraction.num <= 100 * fraction.den

\* C1: no JD keyword that is an exact, semantic or fuzzy match appears in
\* the returned missing_keywords.
C1_MatchedNeverMissing ==
    Returned =>
        \A w \in MatchedJdWords : w \notin Range(Report.missing_keywords)

\* C2: every score field of the report is in [0,100]: keyword_score,
\* phrase_score, achievement_score, ats_score, similarity_with_jd when it
\* is not null, and the final score (ats_score and similarity_with_jd are
\* in hundredths).
C2_ScoresBounded ==
    /\ skill_score \in 0..100
    /\ InPercentRange(keyword_score)
    /\ InPercentRange(phrase_score)
    /\ achievement_score \in 0..100
    /\ ats_score \in 0..10000
    /\ similarity_with_jd # None => similarity_with_jd[1] \in 0..10000
    /\ score # None => score[1] \in 0..100
    /\ Returned =>
           /\ Report.score \in 0..100
           /\ Report.ats_score \in 0..10000
           /\ Report.similarity_with_jd # None =>
                  Report.similarity_with_jd[1] \in 0..10000

\* C2 witness: a report whose unclamped score is negative, so that the
\* clamp acted.
C2_Witness ==
    /\ Returned
    /\ ~HasJobDescription(job_description)
    /\ ScoreWithoutJD(skill_score, Len(text),
                      GrammarPenalty(grammar_issues)) < 0
    /\ Report.score = 0

\* C3: the returned missing_keywords has at most 30 entries and the
\* returned grammar_issues at most 8.
C3_ListsBounded ==
    Returned =>
        /\ Len(Report.missing_keywords) <= 30
        /\ Len(Report.grammar_issues) <= 8

\* C3 witness: a report for which both lists were cut: more than 30
\* candidate keywords and more than 8 findings in the first 10 sentences.
C3_Witness ==
    /\ Returned
    /\ Cardinality({ w \in jd_keywords \ resume_keywords : Len(w) > 4 }) > 30
    /\ Len(Report.missing_keywords) = 30
    /\ Len(IssuesOf(SplitSentences(text),
                    Min(Len(SplitSentences(text)), 10))) > 8
    /\ Len(Report.grammar_issues) = 8

\* C4: the report is a function of the job description and the resume
\* text: missing_keywords is the same sequence whatever order the set of
\* missing keywords is iterated in.
C4_MissingOrderDetermined ==
    Returned /\ HasJobDescription(job_description) =>
        \A order \in SetOrders(jd_keywords \ resume_keywords) :
            MissingKeywords(order) = Report.missing_keywords

\* str.isspace(), and true of the empty str
IsBlank(s) == \A i \in 1..Len(s) : IsSpace(s[i])

\* C5 as stated: similarity_with_jd is null when the job description is
\* the empty string, and equals the reported ats_score for every other job
\* description string.
C5_SimilarityNullIffEmpty ==
    Returned =>
        IF job_description = <<>>
        THEN Report.similarity_with_jd = None
        ELSE Report.similarity_with_jd = <<Report.ats_score>>

\* C5, amended: similarity_with_jd is null when the job description is
\* empty or only whitespace, and equals the reported ats_score otherwise.
C5_SimilarityNullIffBlank ==
    Returned =>
        IF IsBlank(job_description)
        THEN Report.similarity_with_jd = None
        ELSE Report.similarity_with_jd = <<Report.ats_score>>

\* C5 witness: a report for a non-empty job description of whitespace.
C5_Witness ==
    /\ Returned
    /\ job_description # <<>>
    /\ IsBlank(job_description)
    /\ Report.similarity_with_jd = None
    /\ Report.ats_score = 0

\* the score of the report as the claims write it, from the reported
\* fields: weights in hundredths, content_quality = min(100, length / 50)
ReportPenalty == Min(2 * Len(Report.grammar_issues), 10)
ContentQualityTimes50 == Min(100 * 50, Len(text))
ClaimedClamp(x) == IF x < 0 THEN 0 ELSE IF x > 100 THEN 100 ELSE x

\* C6: for the empty job description similarity_with_jd is null,
\* missing_keywords is empty and the score is
\* clamp(round(0.70 skill_score + 0.30 content_quality - grammar_penalty)).
C6_EmptyJdFallback ==
    Returned /\ job_description = <<>> =>
        /\ Report.similarity_with_jd = None
        /\ Report.missing_keywords = <<>>
        /\ Report.score =
               ClaimedClamp(Round(70 * 50 * skill_score
                                      + 30 * ContentQualityTimes50
                                      - 100 * 50 * ReportPenalty,
                                  100 * 50))

\* C6 witness: a report for the empty job description and a resume long
\* enough for the cap of content_quality to act.
C6_Witness ==
    /\ Returned
    /\ job_description = <<>>
    /\ Len(text) > 100 * 50
    /\ Report.score > 0

\* the lowered resume text with one more (lower-case) word at its end
WithWord(resume, w) == resume \o <<" ">> \o w

HasMatch(w) ==
    \/ w \in resume_keywords
    \/ SynonymMatch(w, resume_keywords, Lower(text))
    \/ (Len(w) > 3
        /\ \E r \in resume_keywords : Len(r) > 3 /\ FuzzyRule(w, r))

\* C8: keyword_score is 100 * (JD keywords that are an exact, semantic or
\* fuzzy match) / (JD keywords), each keyword counted once, and 0 when
\* there is no JD keyword.
C8_KeywordScoreFormula ==
    pc \in {"ats_scored", "done"} /\ HasJobDescription(job_description) =>
        /\ MatchedJdWords = { w \in jd_keywords : HasMatch(w) }
        /\ exact_matches \cap semantic_matched_jd_words = {}
        /\ IF jd_keywords = {}
           THEN keyword_score.num = 0
           ELSE keyword_score.num * Cardinality(jd_keywords)
                    = 100 * Cardinality({ w \in jd_keywords : HasMatch(w) })
                          * keyword_score.den

\* C8 witness: a JD with an exact match and a match through a synonym or
\* the fuzzy rule, both counted: two of two keywords.
C8_Witness ==
    /\ pc = "ats_scored"
    /\ exact_matches # {}
    /\ semantic_matched_jd_words # {}
    /\ keyword_score.num = 100 * keyword_score.den

\* a <= b for fractions num / den >= 0, den > 0: by the integer parts, then
\* by the remainders (whose products stay small)
AtMost(a, b) ==
    \/ a.num \div a.den < b.num \div b.den
    \/ /\ a.num \div a.den = b.num \div b.den
       /\ (a.num % a.den) * b.den <= (b.num % b.den) * a.den

\* 100 times the weighted sum 0.70 k + 0.20 p + 0.10 a, as a fraction
WeightedHundredths ==
    [num |-> 70 * keyword_score.num * phrase_score.den
                 + 20 * phrase_score.num * keyword_score.den
                 + 10 * achievement_score
                      * keyword_score.den * phrase_score.den,
     den |-> keyword_score.den * phrase_score.den]

C10_ScoreWithAnyJd ==
    Returned /\ job_description # <<>> =>
        Report.score =
            ClaimedClamp(Round(15 * 100 * skill_score
                                   + (40 + 45) * Report.ats_score
                                   - 100 * 100 * ReportPenalty,
                               100 * 100))

\* C10, amended: the same, for a job description with at least one
\* character that is not whitespace.
C10_ScoreWithJd ==
    Returned /\ ~IsBlank(job_description) =>
        Report.score =
            ClaimedClamp(Round(15 * 100 * skill_score
                                   + (40 + 45) * Report.ats_score
                                   - 100 * 100 * ReportPenalty,
                               100 * 100))

\* C10 witness: a report for a job description, with skills found, a
\* positive ats_score and a grammar penalty.
C10_Witness ==
    /\ Returned
    /\ ~IsBlank(job_description)
    /\ skill_score > 0
    /\ Report.ats_score > 0
    /\ ReportPenalty > 0
    /\ Report.score > 0

\* the words of the job description, as line 317 finds them
JdWords == FindWords(Lower(job_description))

\* the words of the JD without leading and trailing '/', '#' and '-'
CleanJdWords ==
    CHOOSE clean \in { SubSeq([i \in 1..Len(words) |-> WordClean(words[i])],
                              1, Len(words)) : words \in { JdWords } } : TRUE

KeptIn(clean) ==
    { i \in 1..(Len(clean) - 1) :
        /\ Len(clean[i]) > 3
        /\ Len(clean[i + 1]) > 3
        /\ clean[i] \notin stopwords
        /\ clean[i + 1] \notin stopwords }

\* the positions i at which the adjacent pair (word i, word i + 1) of the JD
\* is a two-word phrase: both longer than 3 characters, neither a stopword
KeptBigrams == UNION { KeptIn(clean) : clean \in { CleanJdWords } }

\* those whose phrase occurs in the lower-cased resume text
MatchedBigrams ==
    UNION { { i \in KeptIn(pair[1]) :
                Contains(pair[2], pair[1][i] \o <<" ">> \o pair[1][i + 1]) } :
            pair \in { CleanJdWords } \X { Lower(text) } }

AfterAtsBlock ==
    pc \in {"ats_scored", "done"} /\ HasJobDescription(job_description)

MissingCandidates ==
    { w \in jd_keywords \ resume_keywords : Len(w) > 4 }

\* C12: missing_keywords consists only of JD keywords longer than 4
\* characters, each once, in order of non-increasing length; it holds all
\* candidates when there are at most 30 and otherwise 30 of them, such that
\* no dropped candidate is longer than a kept one.
C12_MissingRanked ==
    Returned /\ HasJobDescription(job_description) =>
        LET kept == Report.missing_keywords
        IN  /\ \A i \in 1..Len(kept) :
                   kept[i] \in jd_keywords /\ Len(kept[i]) > 4
            /\ \A i, j \in 1..Len(kept) :
                   /\ i < j => Len(kept[i]) >= Len(kept[j])
                   /\ i # j => kept[i] # kept[j]
            /\ Range(kept) \subseteq MissingCandidates
            /\ Len(kept) = IF Cardinality(MissingCandidates) > 30 THEN 30
                           ELSE Cardinality(MissingCandidates)
            /\ \A dropped \in MissingCandidates \ Range(kept) :
                   \A i \in 1..Len(kept) : Len(dropped) <= Len(kept[i])

\* C12 witness: more than 30 candidates of two lengths, 30 kept, and what is
\* dropped is of the shorter length while both lengths are kept.
C12_Witness ==
    /\ Returned
    /\ Cardinality(MissingCandidates) > 30
    /\ Len(Report.missing_keywords) = 30
    /\ Len(Report.missing_keywords[1]) > Len(Report.missing_keywords[30])
    /\ \E dropped \in MissingCandidates \ Range(Report.missing_keywords) :
           Len(dropped) = Len(Report.missing_keywords[30])

\* the rounded score of lines 369 and 373 for a penalty of 0, before the
\* clamp of line 375
UnpenalisedScore ==
    IF HasJobDescription(job_description) /\ similarity_with_jd # None
    THEN ScoreWithJD(skill_score, similarity_with_jd[1], ats_score, 0)
    ELSE ScoreWithoutJD(skill_score, Len(text), 0)

\* C13: grammar_penalty is min(2 * number of returned findings, 10), one of
\* 0, 2, 4, 6, 8, 10 with at most 8 findings, and the final score is the
\* clamp of the score without penalty lowered by exactly that, so by at
\* most 10 points.
C13_PenaltyCapped ==
    Returned =>
        LET findings == Len(Report.grammar_issues)
            penalty == IF 2 * findings < 10 THEN 2 * findings ELSE 10
        IN  /\ findings <= 8
            /\ GrammarPenalty(Report.grammar_issues) = penalty
            /\ penalty \in {0, 2, 4, 6, 8, 10}
            /\ Report.score = ClaimedClamp(UnpenalisedScore - penalty)
            /\ Report.score >= ClaimedClamp(UnpenalisedScore - 10)

\* C13 witness: a report with 8 findings, whose 16 points are capped to 10,
\* and a score that the clamp did not touch.
C13_Witness ==
    /\ Returned
    /\ Len(Report.grammar_issues) = 8
    /\ Report.score > 0
    /\ Report.score = UnpenalisedScore - 10

\* the response to a request that runs alone: its own upload is read back
AloneResponse(request) ==
    IF ~allowed_file(request.filename) THEN InvalidFileType
    ELSE IF ~Contains(secure_filename(request.filename), <<".">>)
    THEN UnhandledError
    ELSE IF ~request.file.readable THEN ExtractionFailed
    ELSE IF Strip(request.file.text) = <<>> THEN NoTextExtracted
    ELSE Analyzed(ReportWithoutJD(DefaultSkills, request.file.text))

\* C14: requests that run interleaved, also with the same file name, each
\* get the response they would get alone, computed from their own resume.
C14_ReportFromOwnResume ==
    \A r \in DOMAIN requests :
        requests[r].pc = "responded" =>
            requests[r].response = <<AloneResponse(requests[r])>>


\* the request of the matcher example, answered
MatcherExampleReturned ==
    /\ Returned
    /\ job_description = MatcherExampleJd
    /\ text = MatcherExampleResume

\* the synonym cluster registered under the key "sql"
SqlCluster ==
    CHOOSE cluster \in Range(universal_synonyms) : cluster.key = <<"s", "q", "l">>

\* w is matched by the synonym lookup, and the cluster "sql" lists both w
\* and a keyword of the resume
SemanticThroughSql(w) ==
    /\ w \notin exact_matches
    /\ w \in semantic_matched_jd_words
    /\ w \in Range(SqlCluster.synonyms)
    /\ Range(SqlCluster.synonyms) \cap resume_keywords # {}

\* what the matcher example gives before the composite score
MatcherExampleMatches ==
    /\ <<"p", "y", "t", "h", "o", "n">> \in exact_matches
    /\ SemanticThroughSql(<<"s", "q", "l">>)
    /\ SemanticThroughSql(<<"d", "a", "t", "a", "b", "a", "s", "e">>)
    /\ achievement_score > 0

\* C15 as stated: in the matcher example python is an exact match, sql and
\* database are semantic matches through the sql cluster, achievement_score
\* is nonzero and the score is strictly between 40 and 100, whatever the
\* skills list.
C15_ExampleScoreAbove40 ==
    MatcherExampleReturned =>
        /\ MatcherExampleMatches
        /\ 40 < Report.score
        /\ Report.score < 100

\* C15 amended: the matches and the achievement score are as stated, the
\* ATS score is 44; the score is 43 with the built-in skills list (two of
\* its five skills found) and 37, not above 40, with no skills list.
C15_ExampleScoreBySkills ==
    MatcherExampleReturned =>
        /\ MatcherExampleMatches
        /\ Report.similarity_with_jd = <<4400>>
        /\ SKILLS = DefaultSkills => Report.score = 43
        /\ SKILLS = <<>> => Report.score = 37
        /\ Report.score < 100

\* C15 witness: the example answered with the built-in skills list.
C15_Witness ==
    /\ MatcherExampleReturned
    /\ SKILLS = DefaultSkills
    /\ exact_matches = { <<"p", "y", "t", "h", "o", "n">> }
    /\ semantic_matched_jd_words = { <<"s", "q", "l">>, <<"d", "a", "t", "a", "b", "a", "s", "e">> }
    /\ Report.score = 43

\* the first ten pieces of the resume text split at '.', '!' and '?'
CheckedPieces ==
    LET pieces == SplitSentences(text)
    IN  SubSeq(pieces, 1, Min(Len(pieces), 10))

\* the checked sentences after the first that start with a lowercase letter
LowercaseSentences ==
    { i \in 2..Len(CheckedPieces) :
        /\ Strip(CheckedPieces[i]) # <<>>
        /\ IsLowerChar(Strip(CheckedPieces[i])[1]) }

\* the checked sentences that hold a double space once stripped
SpacedSentences ==
    { i \in 1..Len(CheckedPieces) :
        Contains(Strip(CheckedPieces[i]), <<" ", " ">>) }

FindingsWith(message) ==
    { k \in 1..Len(Report.grammar_issues) :
        Report.grammar_issues[k].message = message }

\* a report for a resume text with a double space and one sentence, other
\* than the first, that starts with a lowercase letter
DoubleSpaceAndOneLowercase ==
    /\ Returned
    /\ Contains(text, <<" ", " ">>)
    /\ Cardinality(LowercaseSentences) = 1

ClusterKeys == { cluster.key : cluster \in Range(universal_synonyms) }

\* the synonyms a JD keyword resolves to: the lists of all clusters that
\* list it
Resolved(w) ==
    UNION { Range(cluster.synonyms) :
              cluster \in { c \in Range(universal_synonyms) :
                              w \in Range(c.synonyms) } }

\* the fuzzy rule holds for w and some resume keyword
FuzzyCandidate(w) ==
    /\ Len(w) > 3
    /\ \E r \in resume_keywords : Len(r) > 3 /\ FuzzyRule(w, r)

\* the JD keywords counted as semantic matches: matched, not exact, and
\* not by the fuzzy rule
SemanticOnly ==
    { w \in semantic_matched_jd_words \ exact_matches : ~FuzzyCandidate(w) }

\* C17 as stated: a JD keyword that is not the key of a synonym cluster
\* resolves to itself only, so it is a semantic match only if it occurs in
\* the resume text.
C17_ResolvedByKey ==
    AfterAtsBlock =>
        \A w \in SemanticOnly \ ClusterKeys : Contains(Lower(text), w)

\* C17 amended: a JD keyword resolves to the synonym lists of every cluster
\* that lists it, whatever the key (every key is in its own list), and to
\* nothing when no cluster lists it: it is a semantic match iff one of
\* those synonyms is a resume keyword or a substring of the lower-cased
\* resume text.
C17_ResolvedByMembership ==
    AfterAtsBlock =>
        /\ \A cluster \in Range(universal_synonyms) :
               cluster.key \in Range(cluster.synonyms)
        /\ \A w \in jd_keywords \ exact_matches :
               ~FuzzyCandidate(w) =>
                   (w \in semantic_matched_jd_words
                       <=> \E s \in Resolved(w) :
                              \/ s \in resume_keywords
                              \/ Contains(Lower(text), s))

\* C17 witness: the JD keyword "database", no cluster key and not in the
\* resume text, is a semantic match through "mysql".
C17_Witness ==
    /\ AfterAtsBlock
    /\ <<"d", "a", "t", "a", "b", "a", "s", "e">> \in SemanticOnly \ ClusterKeys
    /\ ~Contains(Lower(text), <<"d", "a", "t", "a", "b", "a", "s", "e">>)
    /\ <<"m", "y", "s", "q", "l">> \in Resolved(<<"d", "a", "t", "a", "b", "a", "s", "e">>) \cap resume_keywords

\* the outcome of a JD keyword, decided in priority order
Outcome(w) ==
    IF w \in resume_keywords THEN "exact"
    ELSE IF \E s \in Resolved(w) :
                s \in resume_keywords \/ Contains(Lower(text), s)
    THEN "semantic"
    ELSE IF FuzzyCandidate(w) THEN "fuzzy"
    ELSE "unmatched"

WithOutcome(outcomes) == { w \in jd_keywords : Outcome(w) \in outcomes }

LeftToFuzzy == WithOutcome({"fuzzy", "unmatched"})

\* the fuzzy rule as stated, for a JD keyword w and a resume keyword r
SharePrefix(w, r, n) == SubSeq(w, 1, n) = SubSeq(r, 1, n)

StatedFuzzy(w) ==
    \E r \in resume_keywords :
        /\ Len(r) > 3
        /\ \/ Contains(r, w)
           \/ Contains(w, r)
           \/ SharePrefix(w, r, 3)
           \/ (Len(w) > 5 /\ Len(r) > 5 /\ SharePrefix(w, r, 5))

\* C19: a JD keyword of length 3 that is neither an exact nor a semantic
\* match is unmatched, and one of length > 3 is a fuzzy match iff some
\* resume keyword of length > 3 contains it, is contained in it, shares its
\* first 3 characters or, both longer than 5, its first 5.
C19_FuzzyOnlyAboveThree ==
    AfterAtsBlock =>
        \A w \in LeftToFuzzy :
            /\ Len(w) <= 3 => w \notin semantic_matched_jd_words
            /\ Len(w) > 3 => (w \in semantic_matched_jd_words <=> StatedFuzzy(w))

\* C19 witness: "eng" is inside the resume keyword "engineering" and
\* "required" contains the resume keyword "req"; both are unmatched.
C19_Witness ==
    /\ AfterAtsBlock
    /\ job_description = ShortWordsExampleJd
    /\ { <<"e", "n", "g">>, <<"r", "e", "q", "u", "i", "r", "e", "d">> } \subseteq LeftToFuzzy
    /\ Contains(<<"e", "n", "g", "i", "n", "e", "e", "r", "i", "n", "g">>, <<"e", "n", "g">>) /\ <<"e", "n", "g", "i", "n", "e", "e", "r", "i", "n", "g">> \in resume_keywords
    /\ Contains(<<"r", "e", "q", "u", "i", "r", "e", "d">>, <<"r", "e", "q">>) /\ <<"r", "e", "q">> \in resume_keywords
    /\ semantic_matched_jd_words = {}

\* C20: when the JD gives at least one two-word phrase, phrase_score is 0
\* if none occurs in the resume text and otherwise
\* min(100, 100 * matched / total + 20), total counting a repeated phrase
\* every time; so phrase_score is never strictly between 0 and 20.
C20_PhraseScoreFormula ==
    AfterAtsBlock /\ KeptBigrams # {} =>
        LET total == Cardinality(KeptBigrams)
            matched == Cardinality(MatchedBigrams)
        IN  /\ matched = 0 => phrase_score.num = 0
            /\ matched > 0 =>
                   phrase_score.num * total
                       = Min(100 * matched + 20 * total, 100 * total)
                             * phrase_score.den
            /\ ~(0 < phrase_score.num
                 /\ phrase_score.num < 20 * phrase_score.den)

\* C20 witness: a JD whose three phrases hold "python engineer" twice, two
\* of the three in the resume: phrase_score is 200/3 + 20.
C20_Witness ==
    /\ AfterAtsBlock
    /\ job_description = RepeatedPhraseJd
    /\ Cardinality(KeptBigrams) = 3
    /\ MatchedBigrams = {1, 3}
    /\ phrase_score.num * 3 = 260 * phrase_score.den

\* C21: critical_phrases_jd holds, in order, one phrase for every pair of
\* words adjacent in the JD's word sequence whose two words are longer than
\* 3 characters and no stopwords, and nothing else; so it has at most
\* (number of JD words - 1) phrases and no phrase across a stopword or a
\* short word.
C21_PhrasesFromAdjacentPairs ==
    AfterAtsBlock =>
        \A clean \in { CleanJdWords } :
        \A kept \in { KeptIn(clean) } :
            /\ Len(critical_phrases_jd) = Cardinality(kept)
            /\ \A i \in kept :
                   critical_phrases_jd[Cardinality({ j \in kept : j <= i })]
                       = clean[i] \o <<" ">> \o clean[i + 1]
            /\ Len(critical_phrases_jd) <= Max(Len(clean) - 1, 0)

\* C21 witness: "senior python engineer with data" gives the two phrases of
\* its first three words and none across the stopword "with".
C21_Witness ==
    /\ AfterAtsBlock
    /\ job_description = PhrasesExampleJd
    /\ Len(JdWords) = 5
    /\ critical_phrases_jd = << <<"s", "e", "n", "i", "o", "r", " ", "p", "y", "t", "h", "o", "n">>, <<"p", "y", "t", "h", "o", "n", " ", "e", "n", "g", "i", "n", "e", "e", "r">> >>
    /\ <<"w", "i", "t", "h">> \in stopwords
    /\ <<"e", "n", "g", "i", "n", "e", "e", "r", " ", "d", "a", "t", "a">> \notin Range(critical_phrases_jd)

\* the number of number tokens of the resume text
NumberTokens == CountNumbersFrom(text, 0)

\* C22: achievement_score is min(10 * count, 100) for the count of number
\* tokens of the resume text: 0 iff there is none, 10 more for each token
\* up to 10 tokens, and 100 from there on.
C22_AchievementScoreCapped ==
    AfterAtsBlock =>
        /\ achievement_score = Min(10 * NumberTokens, 100)
        /\ achievement_score = 0 <=> NumberTokens = 0
        /\ NumberTokens >= 10 => achievement_score = 100
        /\ \A n \in 0..MaxNumberTokens :
               text = NumberResume(n) =>
                   /\ NumberTokens = n
                   /\ achievement_score = IF n < 10 THEN 10 * n ELSE 100

\* C22 witness: a resume with 12 number tokens scores 100.
C22_Witness ==
    /\ AfterAtsBlock
    /\ text = NumberResume(12)
    /\ NumberTokens = 12
    /\ achievement_score = 100

\* C23: every JD keyword and every resume keyword is lower-case, at least 3
\* characters long once '/', '#' and '-' are stripped from its ends, and no
\* stopword; a text without a word, the empty text among them, gives the
\* empty keyword set.
C23_KeywordsWellFormed ==
    AfterAtsBlock =>
        /\ \A w \in jd_keywords \cup resume_keywords :
               /\ \A i \in 1..Len(w) : ~IsUpperChar(w[i])
               /\ Lower(w) = w
               /\ WordClean(w) = w
               /\ Len(w) >= 3
               /\ w \notin stopwords
        /\ JdWords = <<>> => jd_keywords = {}
        /\ ExtractKeywords(<<>>) = {}

\* C23 witness: of "The -SQL- of C# Engineering/" the keywords are "sql"
\* and "engineering".
C23_Witness ==
    /\ AfterAtsBlock
    /\ job_description = KeywordsExampleJd
    /\ Len(JdWords) = 5
    /\ jd_keywords = { <<"s", "q", "l">>, <<"e", "n", "g", "i", "n", "e", "e", "r", "i", "n", "g">> }
    /\ resume_keywords # {}

\* the first 100 characters of the stripped checked sentence i
ContextOf(i) ==
    LET sentence == Strip(CheckedPieces[i])
    IN  SubSeq(sentence, 1, Min(Len(sentence), 100))

\* C24: the findings come from the first 10 pieces of the text split at
\* '.', '!' and '?' only, at most one capitalization finding and one
\* spacing finding for each of them; a text whose only faulty sentence
\* comes after the tenth has no finding.
C24_FirstTenSentencesOnly ==
    Returned =>
        /\ Len(CheckedPieces) <= 10
        /\ \A k \in 1..Len(Report.grammar_issues) :
               /\ Report.grammar_issues[k].message
                      \in {CapitalMessage, SpacesMessage}
               /\ \E i \in 1..Len(CheckedPieces) :
                      Report.grammar_issues[k].context = ContextOf(i)
        /\ Cardinality(FindingsWith(CapitalMessage))
               <= Cardinality(LowercaseSentences)
        /\ Cardinality(FindingsWith(SpacesMessage))
               <= Cardinality(SpacedSentences)
        /\ \A n \in 10..MaxCleanSentences :
               text = AfterCleanSentences(n) => Report.grammar_issues = <<>>

\* C24 witness: ten sentences without a finding and an eleventh that starts
\* in lower case and holds a double space: no finding is returned.
C24_Witness ==
    /\ Returned
    /\ text = AfterCleanSentences(10)
    /\ Len(SplitSentences(text)) > 10
    /\ IsLowerChar(Strip(SplitSentences(text)[11])[1])
    /\ Contains(SplitSentences(text)[11], <<" ", " ">>)
    /\ Report.grammar_issues = <<>>

\* the checked pieces that hold a sentence
SentencePieces ==
    { i \in 1..Len(CheckedPieces) : Strip(CheckedPieces[i]) # <<>> }

\* the first sentence of the text, if it is among the checked pieces
FirstSentence == { i \in SentencePieces : \A j \in SentencePieces : i <= j }

\* the checked sentences that start with a lowercase letter and are not
\* the first sentence of the text
LowercaseAfterFirst ==
    { i \in SentencePieces \ FirstSentence :
        IsLowerChar(Strip(CheckedPieces[i])[1]) }

\* C25: with all findings returned, there is one capitalization finding
\* for each checked sentence that starts with a lowercase letter and is not
\* the first sentence of the text, and no other; the first sentence is
\* not flagged, also after leading sentence punctuation.
C25_FirstSentenceNeverFlagged ==
    Returned /\ Len(IssuesOf(CheckedPieces, Len(CheckedPieces))) <= 8 =>
        Cardinality(FindingsWith(CapitalMessage))
            = Cardinality(LowercaseAfterFirst)

\* C26: with all findings returned, every checked sentence that holds a run
\* of two or more spaces has a spacing finding, and the suggestion of a
\* spacing finding holds no run of two or more spaces.
C26_SuggestionCollapsesSpaces ==
    Returned /\ Len(IssuesOf(CheckedPieces, Len(CheckedPieces))) <= 8 =>
        /\ Cardinality(FindingsWith(SpacesMessage))
               = Cardinality(SpacedSentences)
        /\ \A k \in FindingsWith(SpacesMessage) :
               ~Contains(Report.grammar_issues[k].suggestions[1], <<" ", " ">>)

\* C28: the set of matched JD keywords, their count and keyword_score are
\* what the loop gives for every iteration order of the JD keyword set and
\* of the resume keyword set.
C28_OrderIndependent ==
    AfterAtsBlock =>
        \A resume_lower \in { Lower(text) } :
        \A jd_order \in SetOrders(jd_keywords) :
        \A resume_order \in SetOrders(resume_keywords) :
        \A loop \in { SemanticLoop(jd_order, Len(jd_order), exact_matches,
                                   resume_order, resume_lower) } :
            /\ loop.semantic_matched_jd_words = semantic_matched_jd_words
            /\ loop.semantic_matches = Cardinality(semantic_matched_jd_words)
            /\ KeywordScore(Cardinality(exact_matches) + loop.semantic_matches,
                            Cardinality(jd_keywords)) = keyword_score

\* C28 witness: a fuzzy match for which the resume holds, among its keywords
\* longer than 3, one that satisfies the fuzzy rule and one that does not,
\* both orders of the two being iterated.
C28_Witness ==
    /\ AfterAtsBlock
    /\ \E w \in LeftToFuzzy \cap semantic_matched_jd_words :
       \E first, second \in resume_keywords :
          /\ Len(first) > 3 /\ Len(second) > 3
          /\ FuzzyRule(w, first)
          /\ ~FuzzyRule(w, second)
          /\ \E a, b \in SetOrders(resume_keywords) :
                /\ a[1] = first
                /\ b[1] = second

\* request r has extracted a text that is empty or only whitespace
ExtractedBlank(r) ==
    /\ requests[r].pc = "extracted"
    /\ Strip(requests[r].text[1]) = <<>>

\* the documents of the collection
Documents == { id \in DOMAIN resume_analysis : resume_analysis[id] # None }

\* C27: the step of a request whose extracted text is empty or only
\* whitespace ends it with the error response 400 and no report, writes
\* nothing to the datastore and leaves no file at the request's path.
C27_BlankTextRejected ==
    [][\A r \in DOMAIN requests :
          ExtractedBlank(r) /\ requests'[r] # requests[r] =>
              /\ requests'[r].pc = "responded"
              /\ requests'[r].response = <<NoTextExtracted>>
              /\ NoTextExtracted.status = 400
              /\ "body" \notin DOMAIN NoTextExtracted
              /\ resume_analysis' = resume_analysis
              /\ uploads'[requests[r].filepath[1]] = None]_vars

\* C27 witness: with the datastore configured, a request was rejected for
\* its blank text while the other one was analysed: one document, written
\* by the other one, and no file left.
C27_Witness ==
    /\ db
    /\ \E r, other \in DOMAIN requests :
          /\ requests[r].pc = "responded"
          /\ requests[r].text # None
          /\ Strip(requests[r].text[1]) = <<>>
          /\ requests[r].response = <<NoTextExtracted>>
          /\ requests[other].pc = "responded"
          /\ requests[other].response[1].status = 200
    /\ Cardinality(Documents) = 1
    /\ \A path \in DOMAIN uploads : uploads[path] = None

\* request r gets its response in this step, having saved its upload
RespondsAfterSaving(r) ==
    /\ requests[r].pc # "responded"
    /\ requests'[r].pc = "responded"
    /\ requests'[r].filepath # None

\* C29: when a request that saved its upload gets its response, no file is
\* left at its path in the uploads folder, whatever the path taken.
C29_FileRemovedAtResponse ==
    [][\A r \in DOMAIN requests :
          RespondsAfterSaving(r) =>
              uploads'[requests'[r].filepath[1]] = None]_vars

\* delete request d, with its owner test passed, removes its document in
\* this step
RemovesOwn(d, id) ==
    /\ deletes[d].pc = "authorized"
    /\ deletes'[d].pc = "responded"
    /\ deletes[d].doc_id = <<id>>
    /\ deletes[d].user_id = <<resume_analysis[id][1].userId>>

\* delete request d is answered 400, 404 or 403 in this step
Refused(d) ==
    /\ deletes[d].pc # "responded"
    /\ deletes'[d].pc = "responded"
    /\ deletes'[d].response[1].status \in {400, 404, 403}

\* C30: a stored record is never altered, and it is removed only by a
\* delete request for its id whose userId equals the record's userId; a
\* step that answers 400, 404 or 403 leaves the stored records unchanged.
C30_DeletedOnlyByOwner ==
    [][/\ \A id \in DocumentIds :
             resume_analysis'[id] # resume_analysis[id] =>
                 /\ resume_analysis[id] # None
                 /\ resume_analysis'[id] = None
                 /\ \E d \in DOMAIN deletes : RemovesOwn(d, id)
       /\ \A d \in DOMAIN deletes :
             Refused(d) => resume_analysis' = resume_analysis]_vars

C30_Witness ==
    \E d, e \in DOMAIN deletes :
        /\ deletes[d].response = <<DeleteSucceeded>>
        /\ resume_analysis[deletes[d].doc_id[1]] = None
        /\ StoredHistory[deletes[d].doc_id[1]] # None
        /\ deletes[e].response = <<Unauthorized>>
        /\ resume_analysis[deletes[e].doc_id[1]] = StoredHistory[deletes[e].doc_id[1]]
        /\ deletes[e].doc_id # deletes[d].doc_id
=============================================================================
